---------------------------- MODULE Spec2Model ----------------------------
(***************************************************************************)
(* A model of the QUIC draft-15 connection core of src/src/lib.rs:         *)
(* Conn::recv, Conn::send, Conn::stream_send, Conn::stream_recv,           *)
(* Conn::do_handshake and the TransportParams codec.                       *)
(*                                                                         *)
(* The collaborators whose code is not in src/ (octets, packet, frame,     *)
(* stream, ranges, crypto, tls) are modelled from the specification text.  *)
(***************************************************************************)
EXTENDS Integers, Sequences, FiniteSets, TLC

VARIABLES
    conn,   \* endpoint -> Conn object
    wire,   \* endpoint -> datagrams emitted towards that endpoint
    last,   \* what the last API call was and what it returned
    g,      \* history of the run (what was emitted, delivered, read)
    nops,   \* number of API calls made so far
    calls,  \* endpoint -> parity of the number of its calls of send
    tpx     \* state of the transport-parameter codec harness

vars == <<conn, wire, last, g, nops, calls, tpx>>

(***************************************************************************)
(* Generic helpers.                                                        *)
(***************************************************************************)
Min(a, b) == IF a <= b THEN a ELSE b
Max(a, b) == IF a >= b THEN a ELSE b

RECURSIVE SetMax(_)
SetMax(S) == LET x == CHOOSE y \in S : TRUE
             IN IF S = {x} THEN x ELSE Max(x, SetMax(S \ {x}))

RECURSIVE Rep(_, _)
Rep(x, n) == IF n = 0 THEN <<>> ELSE <<x>> \o Rep(x, n - 1)

Take(s, n) == SubSeq(s, 1, Min(n, Len(s)))
Drop(s, n) == SubSeq(s, Min(n, Len(s)) + 1, Len(s))

(***************************************************************************)
(* Program constants of lib.rs.                                            *)
(***************************************************************************)
\* A version is held as the four bytes put_u32 writes for it (0xff00000f
\* does not fit the checker's integers).
VERSION_DRAFT15 == <<255, 0, 0, 15>>
CLIENT_INITIAL_MIN_LEN == 1200
MAX_PKT_LEN == 1252

(***************************************************************************)
(* octets::Bytes, as far as the transport-parameter codec uses it: big     *)
(* endian integers, and reads that fail with BufferTooShort.               *)
(***************************************************************************)
put_u8(v) == <<v % 256>>
put_u16(v) == <<(v \div 256) % 256, v % 256>>
put_u32(v) == <<(v \div 16777216) % 256, (v \div 65536) % 256,
                (v \div 256) % 256, v % 256>>

\* A read returns [ok, v, rest]; ok = FALSE is Error::BufferTooShort.
ShortRead == [ok |-> FALSE, v |-> 0, rest |-> <<>>]
get_u8(b) == IF Len(b) < 1 THEN ShortRead
             ELSE [ok |-> TRUE, v |-> b[1], rest |-> Drop(b, 1)]
get_u16(b) == IF Len(b) < 2 THEN ShortRead
              ELSE [ok |-> TRUE, v |-> b[1] * 256 + b[2], rest |-> Drop(b, 2)]
get_u32(b) == IF Len(b) < 4 THEN ShortRead
              ELSE [ok |-> TRUE,
                    v |-> ((b[1] * 256 + b[2]) * 256 + b[3]) * 256 + b[4],
                    rest |-> Drop(b, 4)]
get_bytes(b, n) == IF Len(b) < n THEN ShortRead
                   ELSE [ok |-> TRUE, v |-> Take(b, n), rest |-> Drop(b, n)]
get_bytes_with_u8_length(b) ==
    LET l == get_u8(b) IN IF ~l.ok THEN ShortRead ELSE get_bytes(l.rest, l.v)
get_bytes_with_u16_length(b) ==
    LET l == get_u16(b) IN IF ~l.ok THEN ShortRead ELSE get_bytes(l.rest, l.v)

(***************************************************************************)
(* TransportParams.                                                        *)
(***************************************************************************)
ZeroToken == Rep(0, 16)

TransportParamsDefault ==
    [ idle_timeout |-> 0,
      initial_max_data |-> 0,
      initial_max_bidi_streams |-> 0,
      initial_max_uni_streams |-> 0,
      max_packet_size |-> 1205,
      ack_delay_exponent |-> 3,
      disable_migration |-> FALSE,
      max_ack_delay |-> 25,
      initial_max_stream_data_bidi_local |-> 0,
      initial_max_stream_data_bidi_remote |-> 0,
      initial_max_stream_data_uni |-> 0,
      stateless_reset_token_present |-> FALSE,
      stateless_reset_token |-> ZeroToken ]

\* One TLV of encode: id, length, value; left out when `present' is false.
Tlv(present, id, val) ==
    IF present THEN put_u16(id) \o put_u16(Len(val)) \o val ELSE <<>>

\* The TLVs encode writes into its 128-byte scratch buffer, in its order.
EncodeParams(tp, is_server) ==
       Tlv(tp.idle_timeout # 0, 3, put_u16(tp.idle_timeout))
    \o Tlv(tp.initial_max_data # 0, 1, put_u32(tp.initial_max_data))
    \o Tlv(tp.initial_max_bidi_streams # 0, 2,
           put_u16(tp.initial_max_bidi_streams))
    \o Tlv(tp.initial_max_uni_streams # 0, 8,
           put_u16(tp.initial_max_uni_streams))
    \o Tlv(tp.max_packet_size # 0, 5, put_u16(tp.max_packet_size))
    \o Tlv(tp.ack_delay_exponent # 0, 7, put_u8(tp.ack_delay_exponent))
    \o Tlv(tp.disable_migration, 9, <<>>)
    \o Tlv(tp.initial_max_stream_data_bidi_local # 0, 0,
           put_u32(tp.initial_max_stream_data_bidi_local))
    \o Tlv(tp.initial_max_stream_data_bidi_remote # 0, 10,
           put_u32(tp.initial_max_stream_data_bidi_remote))
    \o Tlv(tp.initial_max_stream_data_uni # 0, 11,
           put_u32(tp.initial_max_stream_data_uni))
    \o Tlv(is_server /\ tp.stateless_reset_token_present, 6,
           tp.stateless_reset_token)

\* TransportParams::encode into an output buffer of out_len bytes:
\* [ok, bytes]; ok = FALSE is Error::BufferTooShort.
TPEncode(tp, version, is_server, out_len) ==
    LET params == EncodeParams(tp, is_server)
        out == version
               \o (IF is_server THEN put_u8(4) \o version ELSE <<>>)
               \o put_u16(Len(params)) \o params
    IN IF Len(params) > 128 \/ Len(out) > out_len
       THEN [ok |-> FALSE, bytes |-> <<>>]
       ELSE [ok |-> TRUE, bytes |-> out]

\* One arm of decode's match: the field a TLV sets, from the TLV's value.
\* [ok, tp]; ok = FALSE is the BufferTooShort of a value that is too short.
DecodeParam(tp, id, val) ==
    LET u8 == get_u8(val)
        u16 == get_u16(val)
        u32 == get_u32(val)
        tok == get_bytes(val, 16)
        Set(r, t) == [ok |-> r.ok, tp |-> IF r.ok THEN t ELSE tp]
    IN CASE id = 0 -> Set(u32, [tp EXCEPT
                            !.initial_max_stream_data_bidi_local = u32.v])
         [] id = 1 -> Set(u32, [tp EXCEPT !.initial_max_data = u32.v])
         [] id = 2 -> Set(u16, [tp EXCEPT !.initial_max_bidi_streams = u16.v])
         [] id = 3 -> Set(u16, [tp EXCEPT !.idle_timeout = u16.v])
         [] id = 4 -> [ok |-> TRUE, tp |-> tp]
         [] id = 5 -> Set(u16, [tp EXCEPT !.max_packet_size = u16.v])
         [] id = 6 -> Set(tok, [tp EXCEPT
                            !.stateless_reset_token = tok.v,
                            !.stateless_reset_token_present = TRUE])
         [] id = 7 -> Set(u8, [tp EXCEPT !.ack_delay_exponent = u8.v])
         [] id = 8 -> Set(u16, [tp EXCEPT !.initial_max_uni_streams = u16.v])
         [] id = 9 -> [ok |-> TRUE, tp |-> [tp EXCEPT
                            !.disable_migration = TRUE]]
         [] id = 10 -> Set(u32, [tp EXCEPT
                            !.initial_max_stream_data_bidi_remote = u32.v])
         [] id = 11 -> Set(u32, [tp EXCEPT
                            !.initial_max_stream_data_uni = u32.v])
         [] id = 12 -> Set(u8, [tp EXCEPT !.max_ack_delay = u8.v])
         [] OTHER -> [ok |-> TRUE, tp |-> tp]

\* decode's loop over the TLVs: while params.cap() > 0.
RECURSIVE DecodeLoop(_, _)
DecodeLoop(tp, params) ==
    IF Len(params) = 0 THEN [ok |-> TRUE, tp |-> tp]
    ELSE LET id == get_u16(params)
             val == IF id.ok THEN get_bytes_with_u16_length(id.rest)
                    ELSE ShortRead
             one == IF val.ok THEN DecodeParam(tp, id.v, val.v)
                    ELSE [ok |-> FALSE, tp |-> tp]
         IN IF ~one.ok THEN [ok |-> FALSE, tp |-> tp]
            ELSE DecodeLoop(one.tp, val.rest)

\* TransportParams::decode: [ok, tp]; ok = FALSE is Error::BufferTooShort.
TPDecode(buf, version, is_server) ==
    LET ver == get_bytes(buf, 4)    \* the version is read and dropped
        sv == IF ~ver.ok THEN ShortRead
              ELSE IF ~is_server THEN get_bytes_with_u8_length(ver.rest)
              ELSE [ok |-> TRUE, v |-> <<>>, rest |-> ver.rest]
        params == IF sv.ok THEN get_bytes_with_u16_length(sv.rest)
                  ELSE ShortRead
    IN IF ~params.ok THEN [ok |-> FALSE, tp |-> TransportParamsDefault]
       ELSE DecodeLoop(TransportParamsDefault, params.v)


(***************************************************************************)
(* The transport-parameter codec harness: a record is encoded by one role  *)
(* and the bytes are decoded by the other.                                 *)
(***************************************************************************)
\* The record of tests::transport_params.
TestTransportParams ==
    [ idle_timeout |-> 30,
      initial_max_data |-> 424645563,
      initial_max_bidi_streams |-> 12231,
      initial_max_uni_streams |-> 18473,
      max_packet_size |-> 23421,
      ack_delay_exponent |-> 123,
      disable_migration |-> TRUE,
      max_ack_delay |-> 25,
      initial_max_stream_data_bidi_local |-> 154323123,
      initial_max_stream_data_bidi_remote |-> 6587456,
      initial_max_stream_data_uni |-> 2461234,
      stateless_reset_token_present |-> TRUE,
      stateless_reset_token |-> Rep(186, 16) ]

\* The length of the raw_params buffer of tests::transport_params.
TPOutLen == 256

\* The records the harness encodes: each field takes a zero, a default and
\* another value of its type.
TPInputs ==
    { [ base EXCEPT
          !.idle_timeout = it, !.max_packet_size = mps,
          !.ack_delay_exponent = ade, !.max_ack_delay = mad,
          !.initial_max_data = imd,
          !.stateless_reset_token_present = trp,
          !.stateless_reset_token = tok ] :
        base \in {TransportParamsDefault, TestTransportParams},
        it \in {0, 30}, mps \in {0, 1205, 23421}, ade \in {0, 3},
        mad \in {0, 25, 26}, imd \in {0, 424645563},
        trp \in BOOLEAN, tok \in {ZeroToken, Rep(186, 16)} }

TPInit ==
    /\ tpx \in { [pc |-> "new", in |-> tp, as_server |-> r,
                  raw |-> <<>>, out |-> TransportParamsDefault] :
                 tp \in TPInputs, r \in BOOLEAN }

\* TransportParams::encode(&tp, VERSION_DRAFT15, as_server, &mut raw_params)
TPEncodeStep ==
    /\ tpx.pc = "new"
    /\ LET r == TPEncode(tpx.in, VERSION_DRAFT15, tpx.as_server, TPOutLen)
       IN tpx' = [tpx EXCEPT !.pc = IF r.ok THEN "encoded" ELSE "encode_failed",
                             !.raw = r.bytes]

\* TransportParams::decode(&mut raw_params, VERSION_DRAFT15, !as_server)
TPDecodeStep ==
    /\ tpx.pc = "encoded"
    /\ LET r == TPDecode(tpx.raw, VERSION_DRAFT15, ~tpx.as_server)
       IN tpx' = [tpx EXCEPT !.pc = IF r.ok THEN "decoded" ELSE "decode_failed",
                             !.out = r.tp]


(***************************************************************************)
(* stream::RangeBuf and stream::Stream.  Bytes are small integers.  The    *)
(* reassembly queue is held merged: the set of bytes received and not yet  *)
(* read, each with its offset (the first writer of an offset wins).        *)
(***************************************************************************)
RangeBuf(off, data, fin) == [off |-> off, data |-> data, fin |-> fin]
RangeBufDefault == RangeBuf(0, <<>>, FALSE)

StreamNew(max_rx_data, max_tx_data) ==
    [ recv |-> {}, recv_off |-> 0, recv_fin |-> -1,
      send |-> <<>>, send_off |-> 0,
      rx_data |-> 0, max_rx_data |-> max_rx_data,
      tx_data |-> 0, max_tx_data |-> max_tx_data ]

StreamPushRecv(st, buf) ==
    LET have == {x.off : x \in st.recv}
        fresh == { [off |-> buf.off + i - 1, b |-> buf.data[i]] :
                   i \in {j \in 1..Len(buf.data) :
                            /\ buf.off + j - 1 >= st.recv_off
                            /\ buf.off + j - 1 \notin have} }
    IN [st EXCEPT !.recv = @ \cup fresh,
                  !.recv_fin = IF buf.fin THEN buf.off + Len(buf.data) ELSE @]

StreamCanRead(st) == \E x \in st.recv : x.off = st.recv_off

\* The length of the contiguous run of received bytes that starts at off.
RECURSIVE StreamRun(_, _)
StreamRun(recv, off) ==
    IF \E x \in recv : x.off = off THEN 1 + StreamRun(recv, off + 1) ELSE 0

\* pop_recv: [st, buf], the next contiguous buffer and the stream without
\* it; rx_data follows the offset read up to (its high-water mark).
StreamPopRecv(st) ==
    LET n == StreamRun(st.recv, st.recv_off)
        byte(o) == (CHOOSE x \in st.recv : x.off = o).b
        data == [i \in 1..n |-> byte(st.recv_off + i - 1)]
    IN [ st |-> [st EXCEPT
                   !.recv = {x \in @ : x.off >= st.recv_off + n},
                   !.recv_off = @ + n,
                   !.rx_data = Max(@, st.recv_off + n)],
         buf |-> RangeBuf(st.recv_off, data,
                          st.recv_off + n = st.recv_fin) ]

StreamPushSend(st, data, fin) ==
    [st EXCEPT !.send = Append(@, RangeBuf(st.send_off, data, fin)),
               !.send_off = @ + Len(data)]

StreamCanWrite(st) == st.send # <<>>

\* The bytes pop_send takes from the head of the queue: [q, data, fin].
RECURSIVE StreamTake(_, _, _, _)
StreamTake(q, n, data, fin) ==
    IF n = 0 \/ q = <<>> THEN [q |-> q, data |-> data, fin |-> fin]
    ELSE LET h == Head(q)
         IN IF Len(h.data) > n
            THEN [ q |-> <<RangeBuf(h.off + n, Drop(h.data, n), h.fin)>>
                         \o Tail(q),
                   data |-> data \o Take(h.data, n), fin |-> FALSE ]
            ELSE StreamTake(Tail(q), n - Len(h.data), data \o h.data, h.fin)

\* pop_send(max_len): [st, buf].
StreamPopSend(st, max_len) ==
    LET off == IF st.send = <<>> THEN 0 ELSE Head(st.send).off
        t == StreamTake(st.send, max_len, <<>>, FALSE)
    IN [ st |-> [st EXCEPT !.send = t.q],
         buf |-> RangeBuf(off, t.data, t.fin) ]

\* more_credit: the bytes read exceed half of the advertised window.
StreamMoreCredit(st) == 2 * st.recv_off > st.max_rx_data

(***************************************************************************)
(* Connection ids and keys.  A key is what it was derived from: the level, *)
(* the secret (the connection id of the Initial salt derivation, or the    *)
(* TLS session's secret) and the side that seals with it.                  *)
(***************************************************************************)
Levels == {"Initial", "Handshake", "Application"}

CidLocal(is_server) == IF is_server THEN Rep(2, 16) ELSE Rep(1, 16)
CidRandom == Rep(3, 16)        \* the client's rand_bytes dcid
CidForged == Rep(9, 4)         \* a connection id neither endpoint uses

NoKey == [lvl |-> "None", secret |-> <<>>, side |-> "None"]
Key(lvl, secret, side) == [lvl |-> lvl, secret |-> secret, side |-> side]
TlsSecret == <<0>>
BadSecret == <<99>>
Side(is_server) == IF is_server THEN "server" ELSE "client"

\* crypto::derive_initial_key_material(dcid, is_server): (open, seal)
DeriveInitialKeyMaterial(dcid, is_server) ==
    [ open |-> Key("Initial", dcid, Side(~is_server)),
      seal |-> Key("Initial", dcid, Side(is_server)) ]

(***************************************************************************)
(* packet::PktNumSpace.                                                    *)
(***************************************************************************)
PktNumSpaceNew ==
    [ crypto_open |-> NoKey, crypto_seal |-> NoKey,
      crypto_stream |-> StreamNew(0, 0),
      last_pkt_num |-> 0, largest_rx_pkt_num |-> 0,
      recv_pkt_num |-> {}, do_ack |-> FALSE ]

\* PktNumSpace::overhead(): the AEAD tag length.
AeadTagLen == 16

(***************************************************************************)
(* The TLS collaborator: a TLS 1.3 handshake as the message pump the       *)
(* connection sees.  ClientHello and ServerHello travel at the Initial     *)
(* level, the server's flight (EncryptedExtensions .. Finished) and the    *)
(* client's Finished at the Handshake level.  `ext' is what the peer's     *)
(* quic_transport_parameters extension carries (<<>>: none).               *)
(***************************************************************************)
TlsClientHello == <<101, 102>>
TlsServerHello == <<103>>
TlsServerFlight == <<104, 105, 106>>
TlsClientFinished == <<107>>
TlsJunk == <<199>>

TlsNew(ext) ==
    [ st |-> "start", rx |-> [l \in Levels |-> <<>>],
      ext |-> ext, ext_seen |-> FALSE ]

IsPrefix(a, b) == Len(a) <= Len(b) /\ SubSeq(b, 1, Len(a)) = a

\* tls::State::provide_data(level, buf)
TlsProvideData(tls, level, data) ==
    [ ok |-> tls.st # "failed",
      tls |-> [tls EXCEPT !.rx[level] = @ \o data] ]

\* The callbacks of the handshake: handshake bytes pushed into a level's
\* crypto stream, keys installed into a packet number space.
TlsWrite(c, level, msg) ==
    [c EXCEPT !.space[level].crypto_stream = StreamPushSend(@, msg, FALSE)]
TlsInstallOpen(c, level) ==
    [c EXCEPT !.space[level].crypto_open =
                  Key(level, TlsSecret, Side(~c.is_server))]
TlsInstallSeal(c, level) ==
    [c EXCEPT !.space[level].crypto_seal =
                  Key(level, TlsSecret, Side(c.is_server))]
TlsConsume(c, level, msg) ==
    [c EXCEPT !.tls_state.rx[level] = Drop(@, Len(msg))]
TlsGoto(c, st) == [c EXCEPT !.tls_state.st = st]

\* What the handshake does with the message it waits for at a level:
\* "have" (all of it is there), "want" (more is needed), "bad".
TlsLook(c, level, msg) ==
    LET rx == c.tls_state.rx[level]
    IN IF IsPrefix(msg, rx) THEN "have"
       ELSE IF IsPrefix(rx, msg) THEN "want"
       ELSE "bad"

\* tls::State::do_handshake(): [c, res], the connection after the callbacks
\* and Ok, WantRead or TlsFail.
RECURSIVE TlsDoHandshake(_)
TlsDoHandshake(c) ==
    LET st == c.tls_state.st
        Wait(level, msg, then) ==
            CASE TlsLook(c, level, msg) = "have" -> then
              [] TlsLook(c, level, msg) = "want" ->
                    [c |-> c, res |-> "WantRead"]
              [] OTHER -> [c |-> TlsGoto(c, "failed"), res |-> "TlsFail"]
    IN CASE st = "start" /\ ~c.is_server ->
              [ c |-> TlsGoto(TlsWrite(c, "Initial", TlsClientHello),
                              "wait_sh"),
                res |-> "WantRead" ]
         [] st = "wait_sh" ->
              Wait("Initial", TlsServerHello,
                   TlsDoHandshake(
                     TlsGoto(TlsInstallSeal(TlsInstallOpen(
                       TlsConsume(c, "Initial", TlsServerHello),
                       "Handshake"), "Handshake"), "wait_sf")))
         [] st = "wait_sf" ->
              Wait("Handshake", TlsServerFlight,
                   [ c |-> TlsGoto(TlsWrite(
                             TlsInstallSeal(TlsInstallOpen(
                               [TlsConsume(c, "Handshake", TlsServerFlight)
                                  EXCEPT !.tls_state.ext_seen = TRUE],
                               "Application"), "Application"),
                             "Handshake", TlsClientFinished), "done"),
                     res |-> "Ok" ])
         [] st = "start" /\ c.is_server ->
              Wait("Initial", TlsClientHello,
                   TlsDoHandshake(
                     TlsGoto(TlsInstallSeal(
                       TlsWrite(
                         TlsInstallSeal(TlsInstallOpen(
                           TlsWrite(
                             [TlsConsume(c, "Initial", TlsClientHello)
                                EXCEPT !.tls_state.ext_seen = TRUE],
                             "Initial", TlsServerHello),
                           "Handshake"), "Handshake"),
                         "Handshake", TlsServerFlight),
                       "Application"), "wait_cf")))
         [] st = "wait_cf" ->
              Wait("Handshake", TlsClientFinished,
                   [ c |-> TlsGoto(TlsInstallOpen(
                             TlsConsume(c, "Handshake", TlsClientFinished),
                             "Application"), "done"),
                     res |-> "Ok" ])
         [] st = "done" -> [c |-> c, res |-> "Ok"]
         [] OTHER -> [c |-> c, res |-> "TlsFail"]

\* tls::State::get_quic_transport_params(): [ok, raw]
TlsGetQuicTransportParams(tls) ==
    [ ok |-> tls.ext_seen /\ tls.ext # <<>>, raw |-> tls.ext ]

(***************************************************************************)
(* Conn::new_with_tls                                                      *)
(***************************************************************************)
ConnNew(version, scid, local_transport_params, tls, is_server) ==
    LET keys == DeriveInitialKeyMaterial(CidRandom, is_server)
        c == [ version |-> version,
               dcid |-> <<>>,
               scid |-> scid,
               space |-> [l \in Levels |-> PktNumSpaceNew],
               peer_transport_params |-> TransportParamsDefault,
               local_transport_params |-> local_transport_params,
               tls_state |-> tls,
               rx_data |-> 0,
               max_rx_data |-> local_transport_params.initial_max_data,
               tx_data |-> 0,
               max_tx_data |-> 0,
               streams |-> <<>>,
               is_server |-> is_server,
               derived_initial_secrets |-> FALSE,
               sent_initial |-> FALSE,
               got_peer_conn_id |-> FALSE,
               handshake_completed |-> FALSE,
               draining |-> FALSE ]
    IN IF is_server THEN c
       ELSE [c EXCEPT !.dcid = CidRandom,
                      !.space["Initial"].crypto_open = keys.open,
                      !.space["Initial"].crypto_seal = keys.seal,
                      !.derived_initial_secrets = TRUE]

\* Conn::is_established
is_established(c) == c.handshake_completed

(***************************************************************************)
(* Conn::do_handshake: [c, res]; res is "Ok" or the Error returned.        *)
(* `tlsev' is what the TLS library reports when asked (an asynchronous     *)
(* operation pending, a failed system call) or "none".                     *)
(***************************************************************************)
do_handshake(c, tlsev) ==
    IF c.handshake_completed THEN [c |-> c, res |-> "Ok"]
    ELSE IF tlsev = "PendingOperation" THEN [c |-> c, res |-> "Again"]
    ELSE IF tlsev = "SyscallFail" THEN [c |-> c, res |-> "TlsFail"]
    ELSE
    LET h == TlsDoHandshake(c)
    IN CASE h.res = "Ok" ->
              LET c1 == [h.c EXCEPT !.handshake_completed = TRUE]
                  raw == TlsGetQuicTransportParams(c1.tls_state)
                  dec == TPDecode(raw.raw, c1.version, c1.is_server)
              IN IF ~raw.ok THEN [c |-> c1, res |-> "TlsFail"]
                 ELSE IF ~dec.ok THEN [c |-> c1, res |-> "BufferTooShort"]
                 ELSE [ c |-> [c1 EXCEPT
                                 !.peer_transport_params = dec.tp,
                                 !.max_tx_data = dec.tp.initial_max_data],
                        res |-> "Ok" ]
         [] h.res = "TlsFail" -> [c |-> h.c, res |-> "TlsFail"]
         [] OTHER -> [c |-> h.c, res |-> "Ok"]


(***************************************************************************)
(* frame::Frame: the frames and their wire lengths.                        *)
(***************************************************************************)
varint_len(v) == IF v < 64 THEN 1 ELSE IF v < 16384 THEN 2
                 ELSE IF v < 1073741824 THEN 4 ELSE 8

MAX_CRYPTO_OVERHEAD == 8
MAX_STREAM_OVERHEAD == 12

FPadding(len) == [ft |-> "Padding", len |-> len]
FConnectionClose == [ft |-> "ConnectionClose"]
FApplicationClose == [ft |-> "ApplicationClose"]
FMaxData(max) == [ft |-> "MaxData", max |-> max]
FMaxStreamData(id, max) == [ft |-> "MaxStreamData", stream_id |-> id, max |-> max]
FMaxStreamId(max) == [ft |-> "MaxStreamId", max |-> max]
FPing == [ft |-> "Ping"]
FNewConnectionId == [ft |-> "NewConnectionId"]
FRetireConnectionId == [ft |-> "RetireConnectionId"]
FACK(ranges) == [ft |-> "ACK", ack_delay |-> 0, ranges |-> ranges]
FNewToken == [ft |-> "NewToken"]
FCrypto(data) == [ft |-> "Crypto", data |-> data]
FStream(id, data) == [ft |-> "Stream", stream_id |-> id, data |-> data]
FUnknown == [ft |-> "Unknown"]

\* The number of ranges of a ranges::RangeSet holding the numbers S.
NumRanges(S) == Cardinality({x \in S : x + 1 \notin S})

\* The length of the highest range of S, less one (the ACK's first range).
FirstRange(S) ==
    LET top == SetMax(S)
        low == SetMax({x \in S : x - 1 \notin S})
    IN top - low

\* Frame::wire_len
wire_len(f) ==
    CASE f.ft = "Padding" -> f.len
      [] f.ft = "ConnectionClose" -> 5
      [] f.ft = "ApplicationClose" -> 4
      [] f.ft = "MaxData" -> 1 + varint_len(f.max)
      [] f.ft = "MaxStreamData" ->
            1 + varint_len(f.stream_id) + varint_len(f.max)
      [] f.ft = "MaxStreamId" -> 1 + varint_len(f.max)
      [] f.ft = "Ping" -> 1
      [] f.ft = "NewConnectionId" -> 1 + 1 + 1 + 16 + 16
      [] f.ft = "RetireConnectionId" -> 2
      [] f.ft = "ACK" ->
            IF f.ranges = {} THEN 5
            ELSE 1 + varint_len(SetMax(f.ranges)) + varint_len(f.ack_delay)
                   + varint_len(NumRanges(f.ranges) - 1)
                   + varint_len(FirstRange(f.ranges))
                   + 2 * (NumRanges(f.ranges) - 1)
      [] f.ft = "NewToken" -> 2
      [] f.ft = "Crypto" ->
            1 + varint_len(f.data.off) + varint_len(Len(f.data.data))
              + Len(f.data.data)
      [] f.ft = "Stream" ->
            1 + varint_len(f.stream_id) + varint_len(f.data.off)
              + varint_len(Len(f.data.data)) + Len(f.data.data)
      [] OTHER -> 1

RECURSIVE FramesLen(_)
FramesLen(frames) ==
    IF frames = <<>> THEN 0
    ELSE wire_len(Head(frames)) + FramesLen(Tail(frames))

(***************************************************************************)
(* packet: headers, packet numbers, packets.                               *)
(***************************************************************************)
has_long_header(ty) == ty # "Application"

\* The length of the header Header::long_to_bytes / short_to_bytes writes.
HeaderLen(ty, dcid, scid) ==
    IF ty = "Application" THEN 1 + Len(dcid)
    ELSE 1 + 4 + 1 + Len(dcid) + Len(scid)
           + (IF ty = "Initial" THEN 1 ELSE 0)

\* packet::pkt_num_len
pkt_num_len(pn) == IF pn < 128 THEN 1 ELSE IF pn < 16384 THEN 2 ELSE 4

PnWindow(pn_len) == IF pn_len = 1 THEN 128
                    ELSE IF pn_len = 2 THEN 16384 ELSE 1073741824

\* packet::encode_pkt_num: the truncated number on the wire
encode_pkt_num(pn) == pn % PnWindow(pkt_num_len(pn))

\* packet::decode_pkt_num(largest, truncated, pn_len)
decode_pkt_num(largest, truncated, pn_len) ==
    LET expected == largest + 1
        win == PnWindow(pn_len)
        hwin == win \div 2
        candidate == (expected - (expected % win)) + truncated
    IN IF candidate + hwin <= expected THEN candidate + win
       ELSE IF candidate > expected + hwin /\ candidate > win
       THEN candidate - win
       ELSE candidate

\* A packet as it is on the wire.  `key' is the key it was sealed with,
\* `trunc' says that the buffer ends before the payload length the long
\* header declares.
Packet(ty, version, dcid, scid, pn, frames, key, trunc) ==
    [ ty |-> ty, version |-> version, dcid |-> dcid, scid |-> scid,
      pn |-> pn, frames |-> frames, key |-> key, trunc |-> trunc ]

\* The number of bytes of a packet: header, length, packet number,
\* ciphertext and tag.
PacketLen(pkt) ==
    LET pn_len == pkt_num_len(pkt.pn)
        length == pn_len + FramesLen(pkt.frames) + AeadTagLen
    IN HeaderLen(pkt.ty, pkt.dcid, pkt.scid)
       + (IF has_long_header(pkt.ty) THEN varint_len(length) ELSE 0)
       + length


(***************************************************************************)
(* Conn::recv.  The result of a call is [c, res, n]: the connection after  *)
(* it, "Ok" or the Error, and the number of bytes consumed.                *)
(***************************************************************************)
Ret(c, res, n) == [c |-> c, res |-> res, n |-> n]

\* lib.rs 219-226: the client takes the peer's source connection id.
RecvPeerConnId(c, hdr) ==
    IF ~c.is_server /\ ~c.got_peer_conn_id
    THEN [c EXCEPT !.dcid = hdr.scid, !.got_peer_conn_id = TRUE]
    ELSE c

\* lib.rs 228-241: the Initial secrets, from the first packet's dcid.
RecvInitialSecrets(c, hdr) ==
    IF ~c.derived_initial_secrets
    THEN LET keys == DeriveInitialKeyMaterial(hdr.dcid, c.is_server)
         IN [c EXCEPT !.space["Initial"].crypto_open = keys.open,
                      !.space["Initial"].crypto_seal = keys.seal,
                      !.derived_initial_secrets = TRUE,
                      !.dcid = @ \o hdr.scid,
                      !.got_peer_conn_id = TRUE]
    ELSE c

\* The result of one frame: [c, res, ack].
FrameRet(c, res, ack) == [c |-> c, res |-> res, ack |-> ack]

\* A recv that takes a close frame for any other frame.
FrameCloseIgnored(c) == [c |-> c, res |-> "Ok", ack |-> FALSE]

\* lib.rs 293-299
FrameClose(c) == FrameRet([c EXCEPT !.draining = TRUE], "Ok", FALSE)

\* lib.rs 301-306
FrameMaxData(c, max) ==
    FrameRet([c EXCEPT !.max_tx_data = Max(@, max)], "Ok", TRUE)

\* A recv that takes a limit for a stream it does not know.
FrameMaxStreamDataAny(c, stream_id, max) ==
    [c |-> c, res |-> "Ok", ack |-> TRUE]

\* lib.rs 308-318
FrameMaxStreamData(c, stream_id, max) ==
    IF stream_id \notin DOMAIN c.streams
    THEN FrameRet(c, "UnknownStream", FALSE)
    ELSE FrameRet([c EXCEPT !.streams[stream_id].max_tx_data = Max(@, max)],
                  "Ok", TRUE)

\* A recv that drops the data of a CRYPTO frame.
FrameCryptoDropped(c, ty, data) == [c |-> c, res |-> "Ok", ack |-> TRUE]

\* lib.rs 344-360
FrameCrypto(c, ty, data) ==
    LET c1 == [c EXCEPT !.space[ty].crypto_stream = StreamPushRecv(@, data)]
        pop == StreamPopRecv(c1.space[ty].crypto_stream)
        fed == TlsProvideData(c1.tls_state, ty, pop.buf.data)
    IN IF ~StreamCanRead(c1.space[ty].crypto_stream)
       THEN FrameRet(c1, "Ok", TRUE)
       ELSE IF ~fed.ok
       THEN FrameRet([c1 EXCEPT !.space[ty].crypto_stream = pop.st],
                     "TlsFail", FALSE)
       ELSE FrameRet([c1 EXCEPT !.space[ty].crypto_stream = pop.st,
                                !.tls_state = fed.tls], "Ok", TRUE)

\* self.streams.entry(stream_id).or_insert_with(|| Stream::new(..))
StreamEntry(c, stream_id) ==
    IF stream_id \in DOMAIN c.streams THEN c
    ELSE [c EXCEPT !.streams = @ @@ (stream_id :>
            StreamNew(c.local_transport_params
                        .initial_max_stream_data_bidi_local,
                      c.peer_transport_params
                        .initial_max_stream_data_bidi_remote))]

\* A recv that queues the data of a STREAM frame behind what the stream
\* has received so far, whatever the offset of the frame.
FrameStreamAtEnd(c, stream_id, data) ==
    LET c1 == StreamEntry(c, stream_id)
        st == c1.streams[stream_id]
        end == st.recv_off + Cardinality(st.recv)
    IN [ c |-> [c1 EXCEPT !.streams[stream_id] =
                    StreamPushRecv(@, [data EXCEPT !.off = end])],
         res |-> "Ok", ack |-> TRUE ]

\* lib.rs 362-382
FrameStream(c, stream_id, data) ==
    LET c1 == StreamEntry(c, stream_id)
        c2 == [c1 EXCEPT !.streams[stream_id].rx_data = Max(@, data.off)]
        stream == c2.streams[stream_id]
    IN IF stream.tx_data > stream.max_rx_data
       THEN FrameRet(c2, "FlowControl", FALSE)
       ELSE FrameRet([c2 EXCEPT !.streams[stream_id] =
                                    StreamPushRecv(@, data)], "Ok", TRUE)

\* lib.rs 290-383: the match on the frame
RecvFrame(c, ty, f) ==
    CASE f.ft = "Padding" -> FrameRet(c, "Ok", FALSE)
      [] f.ft \in {"ConnectionClose", "ApplicationClose"} -> FrameClose(c)
      [] f.ft = "MaxData" -> FrameMaxData(c, f.max)
      [] f.ft = "MaxStreamData" -> FrameMaxStreamData(c, f.stream_id, f.max)
      [] f.ft \in {"MaxStreamId", "Ping", "NewConnectionId",
                   "RetireConnectionId", "NewToken"} -> FrameRet(c, "Ok", TRUE)
      [] f.ft = "ACK" -> FrameRet(c, "Ok", FALSE)
      [] f.ft = "Crypto" -> FrameCrypto(c, ty, f.data)
      [] f.ft = "Stream" -> FrameStream(c, f.stream_id, f.data)
      [] OTHER -> FrameRet(c, "UnknownFrame", FALSE)

\* lib.rs 282-384: the loop over the payload's frames
RECURSIVE RecvFrames(_, _, _, _)
RecvFrames(c, ty, frames, do_ack) ==
    IF frames = <<>> THEN FrameRet(c, "Ok", do_ack)
    ELSE LET r == RecvFrame(c, ty, Head(frames))
         IN IF r.res # "Ok" THEN r
            ELSE RecvFrames(r.c, ty, Tail(frames), do_ack \/ r.ack)

\* A recv that forgets an acknowledgement the space already owes.
RecvPktNumForgets(c, ty, pn, do_ack) ==
    [c EXCEPT !.space[ty].recv_pkt_num = @ \cup {pn},
              !.space[ty].do_ack = do_ack,
              !.space[ty].largest_rx_pkt_num = IF @ > pn THEN @ ELSE pn]

\* lib.rs 386-389: the packet number is recorded
RecvPktNum(c, ty, pn, do_ack) ==
    [c EXCEPT !.space[ty].recv_pkt_num = @ \cup {pn},
              !.space[ty].do_ack = @ \/ do_ack,
              !.space[ty].largest_rx_pkt_num = Max(@, pn)]

\* The number of bytes of a datagram, the packets coalesced in it.
RECURSIVE DatagramLen(_)
DatagramLen(buf) ==
    IF buf = <<>> THEN 0 ELSE PacketLen(Head(buf)) + DatagramLen(Tail(buf))

\* What is left of a datagram after its first n bytes: the packets that
\* follow, or, when the n bytes end inside a packet, bytes that are no
\* packet.
RECURSIVE After(_, _)
After(buf, n) ==
    IF n = 0 \/ buf = <<>> THEN buf
    ELSE IF n < PacketLen(Head(buf))
    THEN <<[Head(buf) EXCEPT !.ty = "None"]>> \o Tail(buf)
    ELSE After(Tail(buf), n - PacketLen(Head(buf)))

\* lib.rs 207-213: the first packet of a datagram as recv takes it.  A
\* packet with a short header has no length: its payload is all that is
\* left of the buffer, which does not open when another packet follows.
Framed(buf) ==
    IF Head(buf).ty = "Application" /\ Tail(buf) # <<>>
    THEN [Head(buf) EXCEPT !.key = NoKey]
    ELSE Head(buf)

\* A recv that leaves the tag of the packet in the buffer.
RecvPacketNoTag(c, pkt) ==
    [c |-> c, res |-> "Ok", n |-> PacketLen(pkt) - AeadTagLen]

\* lib.rs 243-392: from the choice of the space to the end
RecvPacket(c, pkt) ==
    LET space == c.space[pkt.ty]
        pn_len == pkt_num_len(pkt.pn)
        pn == decode_pkt_num(space.largest_rx_pkt_num,
                             encode_pkt_num(pkt.pn), pn_len)
        fr == RecvFrames(c, pkt.ty, pkt.frames, FALSE)
    IN IF pkt.ty \notin Levels THEN Ret(c, "InvalidPacket", 0)
       ELSE IF space.crypto_open = NoKey THEN Ret(c, "InvalidState", 0)
       ELSE IF pkt.key # space.crypto_open \/ pn # pkt.pn
       THEN Ret(c, "CryptoFail", 0)
       ELSE IF fr.res # "Ok" THEN Ret(fr.c, fr.res, 0)
       ELSE Ret(RecvPktNum(fr.c, pkt.ty, pn, fr.ack), "Ok", PacketLen(pkt))

\* A recv that takes a packet of any version.
RecvAnyVersion(c, buf, tlsev) ==
    IF buf = <<>> THEN Ret(c, "BufferTooShort", 0)
    ELSE IF do_handshake(c, tlsev).res # "Ok"
    THEN Ret(do_handshake(c, tlsev).c, do_handshake(c, tlsev).res, 0)
    ELSE IF Head(buf).trunc
    THEN Ret(do_handshake(c, tlsev).c, "BufferTooShort", 0)
    ELSE RecvPacket(
           RecvInitialSecrets(
             RecvPeerConnId(do_handshake(c, tlsev).c, Head(buf)), Head(buf)),
           Framed(buf))

\* Conn::recv(buf): buf is a datagram, the packets coalesced in it.
recv(c, buf, tlsev) ==
    IF buf = <<>> THEN Ret(c, "BufferTooShort", 0)
    ELSE LET hs == do_handshake(c, tlsev)
             pkt == Head(buf)
         IN IF hs.res # "Ok" THEN Ret(hs.c, hs.res, 0)
            ELSE IF has_long_header(pkt.ty) /\ pkt.version # hs.c.version
            THEN Ret(hs.c, "UnknownVersion", 0)
            ELSE IF pkt.trunc THEN Ret(hs.c, "BufferTooShort", 0)
            ELSE RecvPacket(RecvInitialSecrets(RecvPeerConnId(hs.c, pkt), pkt),
                            Framed(buf))

(***************************************************************************)
(* Conn::stream_recv and Conn::stream_send: [c, res, buf] and [c, res, n]. *)
(***************************************************************************)
stream_recv(c, stream_id) ==
    IF stream_id \notin DOMAIN c.streams
    THEN [c |-> c, res |-> "UnknownStream", buf |-> RangeBufDefault]
    ELSE IF ~StreamCanRead(c.streams[stream_id])
    THEN [c |-> c, res |-> "Ok", buf |-> RangeBufDefault]
    ELSE LET pop == StreamPopRecv(c.streams[stream_id])
         IN [ c |-> [c EXCEPT !.streams[stream_id] = pop.st],
              res |-> "Ok", buf |-> pop.buf ]

stream_send(c, stream_id, buf, fin) ==
    LET c1 == StreamEntry(c, stream_id)
    IN Ret([c1 EXCEPT !.streams[stream_id] = StreamPushSend(@, buf, fin)],
           "Ok", Len(buf))


(***************************************************************************)
(* Conn::send.  The packetizer is a sequence of stages over a context      *)
(* [c, ty, pn, left, length, frames, res]: res is "run" while the call     *)
(* goes on, else what it ended with.  usize arithmetic: a subtraction that *)
(* underflows panics in a build with overflow checks ("debug") and wraps   *)
(* in one without ("release"); the wrapped value is taken modulo USIZE,    *)
(* which stands for 2^64 and is above every length of the model.           *)
(***************************************************************************)
USIZE == 1073741824

Underflows(a, b) == a < b
USub(a, b) == IF a >= b THEN a - b ELSE USIZE + a - b

Halt(x, res) == [x EXCEPT !.res = res]

\* left -= n, length += n (the budget step of every frame)
Charge(x, n, build) ==
    IF Underflows(x.left, n) /\ build = "debug" THEN Halt(x, "Panic")
    ELSE [x EXCEPT !.left = USub(@, n), !.length = @ + n]

AddFrame(x, f, build) ==
    Charge([x EXCEPT !.frames = Append(@, f)], wire_len(f), build)

\* A send that serves the Handshake space before the Initial space.
SendSpaceHandshakeFirst(c) ==
    IF \/ StreamCanWrite(c.space["Handshake"].crypto_stream)
       \/ c.space["Handshake"].do_ack
    THEN "Handshake"
    ELSE IF \/ StreamCanWrite(c.space["Initial"].crypto_stream)
            \/ c.space["Initial"].do_ack
    THEN "Initial"
    ELSE IF c.handshake_completed THEN "Application"
    ELSE "None"

\* lib.rs 419-434: the packet number space to send in, or "None"
SendSpace(c) ==
    IF \/ StreamCanWrite(c.space["Initial"].crypto_stream)
       \/ c.space["Initial"].do_ack
    THEN "Initial"
    ELSE IF \/ StreamCanWrite(c.space["Handshake"].crypto_stream)
            \/ c.space["Handshake"].do_ack
    THEN "Handshake"
    ELSE IF /\ c.handshake_completed
            /\ \/ StreamCanWrite(c.space["Application"].crypto_stream)
               \/ c.space["Application"].do_ack
               \/ \E id \in DOMAIN c.streams : StreamCanWrite(c.streams[id])
               \/ \E id \in DOMAIN c.streams : StreamMoreCredit(c.streams[id])
    THEN "Application"
    ELSE "None"

\* A send that takes the packet number and leaves the counter alone.
SendBudgetSamePn(c, ty, cap, build) ==
    [ c |-> c, ty |-> ty, pn |-> c.space[ty].last_pkt_num,
      left |-> USub(USub(cap, 4),
                    pkt_num_len(c.space[ty].last_pkt_num) + AeadTagLen),
      length |-> pkt_num_len(c.space[ty].last_pkt_num) + AeadTagLen,
      frames |-> <<>>, res |-> "run" ]

\* lib.rs 451-463: the packet number is taken, the budget is computed
SendBudget(c, ty, cap, build) ==
    LET pn == c.space[ty].last_pkt_num
        length == pkt_num_len(pn) + AeadTagLen
        x == [ c |-> [c EXCEPT !.space[ty].last_pkt_num = @ + 1],
               ty |-> ty, pn |-> pn, left |-> 0, length |-> length,
               frames |-> <<>>, res |-> "run" ]
    IN IF Underflows(cap, 4 + length) /\ build = "debug"
       THEN Halt(x, "Panic")
       ELSE [x EXCEPT !.left = USub(USub(cap, 4), length)]

\* lib.rs 465-479
SendAck(x, build) ==
    IF x.res # "run" \/ ~x.c.space[x.ty].do_ack THEN x
    ELSE AddFrame([x EXCEPT !.c.space[x.ty].recv_pkt_num = {},
                            !.c.space[x.ty].do_ack = FALSE],
                  FACK(x.c.space[x.ty].recv_pkt_num), build)

\* lib.rs 481-494
SendCrypto(x, build) ==
    IF x.res # "run" \/ ~StreamCanWrite(x.c.space[x.ty].crypto_stream) THEN x
    ELSE IF Underflows(x.left, MAX_CRYPTO_OVERHEAD) /\ build = "debug"
    THEN Halt(x, "Panic")
    ELSE LET pop == StreamPopSend(x.c.space[x.ty].crypto_stream,
                                  USub(x.left, MAX_CRYPTO_OVERHEAD))
         IN AddFrame([x EXCEPT !.c.space[x.ty].crypto_stream = pop.st],
                     FCrypto(pop.buf), build)

\* lib.rs 496-510
SendPadding(x, build) ==
    IF x.res # "run" \/ x.c.is_server \/ x.c.sent_initial THEN x
    ELSE IF Underflows(CLIENT_INITIAL_MIN_LEN, x.length) /\ build = "debug"
    THEN Halt(x, "Panic")
    ELSE LET y == AddFrame(x, FPadding(Min(USub(CLIENT_INITIAL_MIN_LEN,
                                                x.length), x.left)), build)
         IN IF y.res # "run" THEN y
            ELSE [y EXCEPT !.c.sent_initial = TRUE]

\* lib.rs 512-529
SendMaxData(x, build) ==
    IF x.res # "run" \/ x.ty # "Application" THEN x
    ELSE IF x.c.rx_data + 2 * MAX_PKT_LEN > x.c.max_rx_data
    THEN LET max == x.c.rx_data + x.c.local_transport_params.initial_max_data
         IN AddFrame([x EXCEPT !.c.max_rx_data = max], FMaxData(max), build)
    ELSE x

\* A send that never raises the limit of a stream.
SendMaxStreamDataNever(x, order, build) == x

\* lib.rs 533-551: the loop over the streams, in the map's order
RECURSIVE SendMaxStreamData(_, _, _)
SendMaxStreamData(x, order, build) ==
    IF x.res # "run" \/ x.ty # "Application" \/ order = <<>> THEN x
    ELSE LET id == Head(order)
             stream == x.c.streams[id]
             max == stream.rx_data + x.c.local_transport_params
                                        .initial_max_stream_data_bidi_local
         IN IF StreamMoreCredit(stream)
            THEN SendMaxStreamData(
                   AddFrame([x EXCEPT !.c.streams[id].max_rx_data = max],
                            FMaxStreamData(id, max), build),
                   Tail(order), build)
            ELSE SendMaxStreamData(x, Tail(order), build)

\* A send that looks at no limit of the peer: the first writable stream
\* is emptied.
SendStreamUnlimited(x, order, build) ==
    IF x.res # "run" \/ x.ty # "Application" \/ order = <<>> THEN x
    ELSE IF ~StreamCanWrite(x.c.streams[Head(order)]) THEN x
    ELSE [x EXCEPT
            !.c.streams[Head(order)] =
                [StreamPopSend(@, MAX_PKT_LEN).st EXCEPT
                   !.tx_data = @ + MAX_PKT_LEN],
            !.c.tx_data = @ + MAX_PKT_LEN,
            !.frames = Append(@, FStream(Head(order),
                         StreamPopSend(x.c.streams[Head(order)],
                                       MAX_PKT_LEN).buf)),
            !.length = @ + wire_len(FStream(Head(order),
                         StreamPopSend(x.c.streams[Head(order)],
                                       MAX_PKT_LEN).buf))]

\* lib.rs 557-589: the loop over the streams, in the map's order
RECURSIVE SendStream(_, _, _)
SendStream(x, order, build) ==
    IF \/ x.res # "run" \/ x.ty # "Application" \/ order = <<>>
       \/ x.c.tx_data = x.c.max_tx_data
    THEN x
    ELSE LET id == Head(order)
             stream == x.c.streams[id]
             under == \/ Underflows(x.c.max_tx_data, x.c.tx_data)
                      \/ Underflows(stream.max_tx_data, stream.tx_data)
                      \/ Underflows(x.left, MAX_STREAM_OVERHEAD)
             max_tx_data == Min(USub(x.c.max_tx_data, x.c.tx_data),
                                USub(stream.max_tx_data, stream.tx_data))
             stream_len == Min(max_tx_data,
                               USub(x.left, MAX_STREAM_OVERHEAD))
             pop == StreamPopSend(stream, stream_len)
             f == FStream(id, pop.buf)
         IN IF ~StreamCanWrite(stream) \/ stream.tx_data = stream.max_tx_data
            THEN SendStream(x, Tail(order), build)
            ELSE IF under /\ build = "debug" THEN Halt(x, "Panic")
            ELSE IF stream_len = 0 THEN SendStream(x, Tail(order), build)
            ELSE [x EXCEPT !.c.streams[id] =
                               [pop.st EXCEPT !.tx_data = @ + stream_len],
                           !.c.tx_data = @ + stream_len,
                           !.frames = Append(@, f),
                           !.length = @ + wire_len(f)]

NoSend(c, res) == [c |-> c, res |-> res, n |-> 0, pkt |-> <<>>]

\* lib.rs 592-630: the packet is written, sealed and its length returned.
\* [c, res, n, pkt]
SendSeal(x, cap, hdr_len) ==
    LET c == x.c
        pn_len == pkt_num_len(x.pn)
        lenfield == IF has_long_header(x.ty) THEN varint_len(x.length) ELSE 0
        payload_len == x.length - pn_len
        aead == c.space[x.ty].crypto_seal
        pkt == Packet(x.ty, c.version, c.dcid, c.scid, x.pn, x.frames,
                      aead, FALSE)
    IN IF x.res # "run" THEN NoSend(c, x.res)
       ELSE IF x.frames = <<>> THEN NoSend(c, "NothingToDo")
       ELSE IF lenfield + pn_len + FramesLen(x.frames) > cap
       THEN NoSend(c, "BufferTooShort")
       ELSE IF aead = NoKey THEN NoSend(c, "InvalidState")
       ELSE IF lenfield + pn_len + payload_len > cap
       THEN NoSend(c, "BufferTooShort")
       ELSE IF payload_len < 16 + (4 - pn_len)
       THEN NoSend(c, "Panic")
       ELSE [ c |-> c, res |-> "Ok",
              n |-> hdr_len + lenfield + pn_len + payload_len, pkt |-> pkt ]

\* A send that puts the CRYPTO frame before the ACK frame, and the STREAM
\* frame before the limits.
SendFramesShuffled(c, ty, cap, hdr_len, order, build) ==
    SendSeal(
      SendMaxStreamData(
        SendMaxData(
          SendStream(
            SendPadding(
              SendAck(
                SendCrypto(SendBudget(c, ty, cap, build), build),
                build),
              build),
            order, build),
          build),
        order, build),
      cap, hdr_len)

\* lib.rs 456-630: the frames are collected and the packet is sealed
SendFrames(c, ty, cap, hdr_len, order, build) ==
    SendSeal(
      SendStream(
        SendMaxStreamData(
          SendMaxData(
            SendPadding(
              SendCrypto(
                SendAck(SendBudget(c, ty, cap, build), build),
                build),
              build),
            build),
          order, build),
        order, build),
      cap, hdr_len)

\* lib.rs 436-449: the header is written into the avail bytes of out
SendHeader(c, ty, avail, hdr_len, order, build) ==
    IF ty = "None" THEN NoSend(c, "NothingToDo")
    ELSE IF hdr_len > avail THEN NoSend(c, "BufferTooShort")
    ELSE SendFrames(c, ty, avail - hdr_len, hdr_len, order, build)

\* lib.rs 406-434: the buffer is capped and the space is chosen
SendPacket(c, out_len, order, build) ==
    SendHeader(c, SendSpace(c),
               Min(c.peer_transport_params.max_packet_size, out_len),
               HeaderLen(SendSpace(c), c.dcid, c.scid), order, build)

\* lib.rs 404: self.do_handshake()?
SendPumped(hs, out_len, order, build) ==
    IF hs.res # "Ok" THEN NoSend(hs.c, hs.res)
    ELSE SendPacket(hs.c, out_len, order, build)

\* Conn::send(out): out_len is out.len(), order the order in which the
\* stream table iterates.
send(c, out_len, tlsev, order, build) ==
    IF out_len = 0 THEN NoSend(c, "BufferTooShort")
    ELSE IF c.draining THEN NoSend(c, "NothingToDo")
    ELSE SendPumped(do_handshake(c, tlsev), out_len, order, build)


(***************************************************************************)
(* The API calls as actions.  conn maps "cln" and "srv" to the Conn of     *)
(* that role; a specification runs one of them against an environment, or  *)
(* both against each other.                                                *)
(***************************************************************************)
MaxOps == 6          \* API calls in a run
MaxPushed == 3       \* bytes an application writes to a stream
StreamIds == {0, 4}

BigOut == 65535      \* the buffer of tests::self_handshake
SmallOut == 64       \* a buffer a header fits in and a packet does not
ShortOut == 1000     \* a buffer a packet fits in, below CLIENT_INITIAL_MIN_LEN

NoPacket == Packet("None", <<>>, <<>>, <<>>, 0, <<>>, NoKey, FALSE)

Peer(e) == IF e = "client" THEN "server" ELSE "client"

FrameTypes(frames) == {frames[i].ft : i \in 1..Len(frames)}

\* The ranges of the ACK frames of a packet.
AckedBy(pkt) ==
    UNION {pkt.frames[i].ranges :
             i \in {j \in 1..Len(pkt.frames) : pkt.frames[j].ft = "ACK"}}

GhostNew ==
    [ emitted |-> [l \in Levels |-> <<>>],
      got |-> [l \in Levels |-> {}],
      seen |-> [l \in Levels |-> {}],
      late |-> FALSE,
      pend |-> [l \in Levels |-> {}],
      due |-> [l \in Levels |-> {}],
      closed |-> FALSE,
      pushed |-> [id \in StreamIds |-> <<>>],
      read |-> [id \in StreamIds |-> <<>>],
      crashed |-> FALSE ]

Call(op, who, res, n, pkt, buf) ==
    [op |-> op, who |-> who, res |-> res, n |-> n, pkt |-> pkt, buf |-> buf]
NoCall == Call("none", "none", "Ok", 0, NoPacket, RangeBufDefault)
\* The stream a stream_send or stream_recv call was about is its n.  Of a
\* call that failed, last keeps who called what and the error.
Outcome(call) ==
    IF call.res = "Ok" THEN call
    ELSE Call(call.op, call.who, call.res, 0, NoPacket, RangeBufDefault)

\* A connection that has panicked is called no more.
CanCall(e) == e \in DOMAIN conn /\ ~g[e].crashed

\* A call of a run that is bounded in its calls.
Counted == nops < MaxOps /\ nops' = nops + 1 /\ UNCHANGED calls

\* All orders in which a stream table with the ids S can iterate.
Orders(S) ==
    {o \in UNION {[1..n -> S] : n \in {Cardinality(S)}} :
        \A i, j \in 1..Cardinality(S) : i # j => o[i] # o[j]}

\* What a recv call that returned r for the packet pkt leaves behind.
RecvDone(e, pkt, r) ==
          /\ conn' = [conn EXCEPT ![e] = r.c]
          /\ last' = Outcome(Call("recv", e, r.res, r.n, NoPacket,
                                  RangeBufDefault))
          /\ g' = IF r.res = "Ok"
                  THEN [g EXCEPT
                          ![e].got[pkt.ty] = @ \cup {pkt.pn},
                          ![e].seen[pkt.ty] = @ \cup {pkt.pn},
                          ![e].late =
                              @ \/ /\ pkt.pn \notin g[e].seen[pkt.ty]
                                   /\ \E m \in g[e].seen[pkt.ty] : m > pkt.pn,
                          ![e].pend[pkt.ty] =
                              IF FrameTypes(pkt.frames) \ {"ACK"} # {}
                              THEN @ \cup {pkt.pn} ELSE @,
                          ![e].closed =
                              @ \/ FrameTypes(pkt.frames) \cap
                                     {"ConnectionClose", "ApplicationClose"}
                                   # {}]
                  ELSE g

\* conn[e].recv(buf)
RecvCall(e, buf, tlsev) ==
    /\ CanCall(e)
    /\ RecvDone(e, IF buf = <<>> THEN NoPacket ELSE Head(buf),
                recv(conn[e], buf, tlsev))
    /\ UNCHANGED tpx

\* What a send call that returned r leaves behind, the packet going onto
\* the wire to the peer if there is one.
SendDone(e, r) ==
          /\ conn' = [conn EXCEPT ![e] = r.c]
          /\ last' = Outcome(Call("send", e, r.res, r.n,
                                  IF r.res = "Ok" THEN r.pkt ELSE NoPacket,
                                  RangeBufDefault))
          /\ g' = IF r.res = "Ok"
                  THEN [g EXCEPT ![e].emitted[r.pkt.ty] = Append(@, r.pkt.pn),
                                 ![e].got[r.pkt.ty] =
                                     IF "ACK" \in FrameTypes(r.pkt.frames)
                                     THEN {} ELSE @,
                                 ![e].due[r.pkt.ty] =
                                     IF "ACK" \in FrameTypes(r.pkt.frames)
                                     THEN g[e].got[r.pkt.ty] ELSE @,
                                 ![e].pend[r.pkt.ty] = @ \ AckedBy(r.pkt)]
                  ELSE IF r.res = "Panic"
                  THEN [g EXCEPT ![e].crashed = TRUE]
                  ELSE g
          /\ wire' = IF r.res = "Ok" /\ Peer(e) \in DOMAIN conn
                     THEN [wire EXCEPT ![Peer(e)] = Append(@, r.pkt)]
                     ELSE wire

\* conn[e].send(out)
SendCall(e, out_len, tlsev, build) ==
    /\ CanCall(e)
    /\ \E order \in Orders(DOMAIN conn[e].streams) :
         SendDone(e, send(conn[e], out_len, tlsev, order, build))
    /\ UNCHANGED tpx

\* conn[e].stream_send(stream_id, buf, fin)
StreamSendCall(e, stream_id, buf, fin) ==
    /\ CanCall(e)
    /\ Len(g[e].pushed[stream_id]) + Len(buf) <= MaxPushed
    /\ \E r \in {stream_send(conn[e], stream_id, buf, fin)} :
          /\ conn' = [conn EXCEPT ![e] = r.c]
          /\ last' = Outcome(Call("stream_send", e, r.res, stream_id,
                                  NoPacket, RangeBuf(0, buf, fin)))
          /\ g' = [g EXCEPT ![e].pushed[stream_id] = @ \o buf]
    /\ UNCHANGED <<wire, tpx>>

\* conn[e].stream_recv(stream_id)
StreamRecvCall(e, stream_id) ==
    /\ CanCall(e)
    /\ \E r \in {stream_recv(conn[e], stream_id)} :
          /\ conn' = [conn EXCEPT ![e] = r.c]
          /\ last' = Outcome(Call("stream_recv", e, r.res, stream_id,
                                  NoPacket, r.buf))
          /\ g' = [g EXCEPT ![e].read[stream_id] = @ \o r.buf.data]
    /\ UNCHANGED <<wire, tpx>>


(***************************************************************************)
(* Spec: one connection, client or server, against its environment: the    *)
(* peer, which may or may not keep to the protocol, and whoever else can   *)
(* put a datagram on the path.                                             *)
(***************************************************************************)
\* Limits that let a little stream data through.
CreditTransportParams ==
    [TransportParamsDefault EXCEPT
        !.initial_max_data = 3,
        !.initial_max_stream_data_bidi_local = 2,
        !.initial_max_stream_data_bidi_remote = 2]

NoParams == <<>>

\* The extension a peer of the given role sends for its parameters.
PeerExt(peer_is_server, params) ==
    IF params = NoParams THEN <<>>
    ELSE TPEncode(params, VERSION_DRAFT15, peer_is_server, TPOutLen).bytes

\* The connections of a run: the role, the local parameters and the
\* peer's.
Setups ==
    { <<FALSE, TransportParamsDefault, TransportParamsDefault>>,
      <<FALSE, CreditTransportParams, CreditTransportParams>>,
      <<TRUE, CreditTransportParams, CreditTransportParams>>,
      <<TRUE, TransportParamsDefault, NoParams>> }

NewConn(is_server, params, ext) ==
    ConnNew(VERSION_DRAFT15, CidLocal(is_server), params, TlsNew(ext),
            is_server)

\* The key the peer seals a packet of a level with.
PeerKey(c, ty) ==
    Key(ty, IF ty = "Initial" THEN CidRandom ELSE TlsSecret,
        Side(~c.is_server))

\* A packet of the peer of c.
PeerPacket(c, ty, pn, frames) ==
    Packet(ty, c.version,
           IF c.is_server /\ ty = "Initial" THEN CidRandom ELSE c.scid,
           IF ty = "Application" THEN <<>> ELSE CidLocal(~c.is_server),
           pn, frames, PeerKey(c, ty), FALSE)

\* The handshake bytes the peer of c sends at a level.
PeerFlight(c, ty) ==
    IF ty = "Initial"
    THEN (IF c.is_server THEN TlsClientHello ELSE TlsServerHello)
    ELSE (IF c.is_server THEN TlsClientFinished ELSE TlsServerFlight)

\* What the peer, keeping to the protocol or not, may send.
EnvPackets(c) ==
    { PeerPacket(c, "Initial", 0,
          <<FCrypto(RangeBuf(0, PeerFlight(c, "Initial"), FALSE))>>),
      PeerPacket(c, "Handshake", 0,
          <<FCrypto(RangeBuf(0, PeerFlight(c, "Handshake"), FALSE))>>),
      PeerPacket(c, "Initial", 1, <<FCrypto(RangeBuf(0, TlsJunk, FALSE))>>),
      PeerPacket(c, "Initial", 1, <<FPing, FConnectionClose>>),
      PeerPacket(c, "Initial", 1, <<FMaxData(5)>>),
      PeerPacket(c, "Application", 0, <<FApplicationClose>>),
      PeerPacket(c, "Application", 0,
          <<FStream(0, RangeBuf(0, <<1, 2>>, FALSE))>>),
      PeerPacket(c, "Application", 1,
          <<FStream(0, RangeBuf(2, <<3>>, TRUE))>>),
      PeerPacket(c, "Application", 1, <<FMaxData(5)>>),
      PeerPacket(c, "Application", 0, <<FMaxStreamData(0, 4)>>),
      PeerPacket(c, "Application", 0, <<FPadding(3)>>),
      PeerPacket(c, "Application", 1, <<FACK({0})>>),
      PeerPacket(c, "Application", 0, <<FUnknown>>),
      PeerPacket(c, "Application", 0,
          <<FMaxStreamId(8), FNewConnectionId, FRetireConnectionId,
            FNewToken>>) }

BadVersion(c) ==
    [PeerPacket(c, "Initial", 0, <<FPing>>) EXCEPT !.version = <<0, 0, 0, 1>>]

\* Packets that differ from the peer's in the header or in the key.
EnvForged(c) ==
    LET p == PeerPacket(c, "Initial", 0, <<FPing>>)
    IN { BadVersion(c),
         [p EXCEPT !.trunc = TRUE],
         [p EXCEPT !.key.secret = BadSecret],
         [p EXCEPT !.scid = CidForged],
         [p EXCEPT !.dcid = CidForged, !.key.secret = CidForged],
         [p EXCEPT !.ty = "Retry"] }

EnvDatagrams(c) ==
    {<<>>}
    \cup { <<p>> : p \in EnvPackets(c) }
    \cup { <<p>> : p \in EnvForged(c) }

OutLens == {0, SmallOut, ShortOut, BigOut}
TlsEvents == {"none", "PendingOperation", "SyscallFail"}
Builds == {"debug", "release"}

\* A call reaches the TLS stack only until the handshake has completed.
TlsEventsOf(c) == IF c.handshake_completed THEN {"none"} ELSE TlsEvents

\* The recv calls of a run: every datagram, and the TLS stack failing
\* under one of them.
RecvInputs(c) ==
    { x \in EnvDatagrams(c) \X TlsEventsOf(c) :
        x[2] = "none" \/ x[1] = <<BadVersion(c)>> }

\* The send calls of a run: every buffer in both builds, and the TLS stack
\* failing under one of them.
SendInputs(c) ==
    { x \in OutLens \X TlsEventsOf(c) \X Builds :
        \/ x[1] # 0 /\ x[2] = "none"
        \/ x[1] = 0 /\ x[2] = "none" /\ x[3] = "debug"
        \/ x[1] = BigOut /\ x[2] # "none" /\ x[3] = "debug" }
\* stream_send calls: the stream, the bytes and fin
SendData == {<<0, <<1, 2, 3>>, FALSE>>, <<4, <<1, 2>>, TRUE>>}

ConnVarsInit(roles) ==
    /\ wire = [e \in roles |-> <<>>]
    /\ last = NoCall
    /\ g = [e \in roles |-> GhostNew]
    /\ nops = 0
    /\ calls = [e \in roles |-> 0]
    /\ tpx = <<>>

Init ==
    /\ \E x \in Setups :
         conn = (Side(x[1]) :> NewConn(x[1], x[2], PeerExt(~x[1], x[3])))
    /\ ConnVarsInit(DOMAIN conn)

\* A datagram arrives from the environment.
EnvRecv ==
    \E e \in DOMAIN conn : \E x \in RecvInputs(conn[e]) :
        Counted /\ RecvCall(e, x[1], x[2]) /\ UNCHANGED wire

\* The application asks for a datagram to send.
AppSend ==
    \E e \in DOMAIN conn : \E x \in SendInputs(conn[e]) :
        Counted /\ SendCall(e, x[1], x[2], x[3])

AppStreamSend ==
    \E e \in DOMAIN conn : \E d \in SendData :
        Counted /\ StreamSendCall(e, d[1], d[2], d[3])

AppStreamRecv ==
    \E e \in DOMAIN conn : \E id \in StreamIds :
        Counted /\ StreamRecvCall(e, id)

Next == EnvRecv \/ AppSend \/ AppStreamSend \/ AppStreamRecv

Spec == Init /\ [][Next]_vars

(***************************************************************************)
(* SpecTP: the transport-parameter codec harness alone.                    *)
(***************************************************************************)
InitTP ==
    /\ TPInit
    /\ conn = <<>> /\ wire = <<>> /\ last = NoCall /\ g = <<>> /\ nops = 0
    /\ calls = <<>>

NextTP ==
    \/ TPEncodeStep /\ UNCHANGED <<conn, wire, last, g, nops, calls>>
    \/ TPDecodeStep /\ UNCHANGED <<conn, wire, last, g, nops, calls>>

SpecTP == InitTP /\ [][NextTP]_vars

(***************************************************************************)
(* SpecHS: a client and a server, the packets of each delivered to the     *)
(* other in order and without loss (tests::self_handshake, which gives     *)
(* every send a buffer of BigOut bytes, without the early exit of its      *)
(* loop).  Each side goes on calling send, and recv while a packet waits    *)
(* for it: as in tests::recv_send, wire[e] is the buffer of the packets    *)
(* written for e, which recv is given whole and takes the first packet of. *)
(* calls keeps the parity of the calls of send, so that a call that        *)
(* changes nothing else is a step all the same.                            *)
(***************************************************************************)
Endpoints == {"client", "server"}

\* create_conn(false) and create_conn(true) with the given parameters
Pair(params) ==
    [e \in Endpoints |->
        NewConn(e = "server", params, PeerExt(e # "server", params))]

InitHS ==
    /\ conn = Pair(TransportParamsDefault)
    /\ ConnVarsInit(Endpoints)

\* What a call of send by e does to calls, and a call of recv to wire.
SendTurn(e) == CanCall(e) /\ calls' = [calls EXCEPT ![e] = 1 - @]
RecvTurn(e) ==
    CanCall(e) /\ wire[e] # <<>> /\ wire' = [wire EXCEPT ![e] = Tail(@)]

HsSend(e) ==
    /\ SendTurn(e)
    /\ \E build \in Builds : SendCall(e, BigOut, "none", build)
    /\ UNCHANGED nops

HsRecv(e) ==
    /\ RecvTurn(e)
    /\ RecvCall(e, wire[e], "none")
    /\ UNCHANGED <<nops, calls>>

ClientSend == HsSend("client")
ClientRecv == HsRecv("client")
ServerSend == HsSend("server")
ServerRecv == HsRecv("server")

NextHS == ClientSend \/ ClientRecv \/ ServerSend \/ ServerRecv

\* HsSend(e) is the only action that changes calls[e] and HsRecv(e) the
\* only one that takes a packet from wire[e], and each can act whenever
\* its turn can: these conditions are WF_vars(HsSend(e)) and
\* WF_vars(HsRecv(e)).
SpecHS ==
    /\ InitHS /\ [][NextHS]_vars
    /\ \A e \in Endpoints : WF_calls(SendTurn(e)) /\ WF_wire(RecvTurn(e))

(***************************************************************************)
(* SpecNet: a client that writes to a stream and a server that reads it,   *)
(* over a path that delivers every datagram, the 1-RTT ones in any order   *)
(* and some of them twice.  nops counts the datagrams delivered twice.     *)
(***************************************************************************)
MaxDup == 1          \* datagrams the path delivers twice
MaxPktNum == 3       \* packet numbers a space uses

\* Limits above what a packet holds: several STREAM frames can be in
\* flight.
WideTransportParams ==
    [TransportParamsDefault EXCEPT
        !.initial_max_data = 4096,
        !.initial_max_stream_data_bidi_local = 4096,
        !.initial_max_stream_data_bidi_remote = 4096]

\* A stream window that the three bytes of a run use up by more than half,
\* and a connection window below two packets.
WindowTransportParams ==
    [TransportParamsDefault EXCEPT
        !.initial_max_data = 8,
        !.initial_max_stream_data_bidi_local = 4,
        !.initial_max_stream_data_bidi_remote = 4]

InitNet ==
    /\ conn \in {Pair(WideTransportParams), Pair(WindowTransportParams),
                 Pair(TransportParamsDefault)}
    /\ ConnVarsInit(Endpoints)

\* The i-th datagram of a queue can arrive next: it is the first, or it
\* and all before it are 1-RTT packets.
CanArrive(q, i) ==
    i = 1 \/ \A j \in 1..i : q[j].ty = "Application"

Without(q, i) == [j \in 1..(Len(q) - 1) |-> IF j < i THEN q[j] ELSE q[j + 1]]

NetSend(e) ==
    /\ \A l \in Levels : conn[e].space[l].last_pkt_num < MaxPktNum
    /\ \E build \in Builds : SendCall(e, BigOut, "none", build)
    /\ UNCHANGED <<nops, calls>>

NetRecv(e) ==
    \E i \in 1..Len(wire[e]) :
        /\ CanArrive(wire[e], i)
        /\ RecvCall(e, <<wire[e][i]>>, "none")
        /\ wire' = [wire EXCEPT ![e] = Without(@, i)]
        /\ UNCHANGED <<nops, calls>>

\* A 1-RTT datagram with stream data arrives and stays on the path, to
\* arrive again.
NetDup(e) ==
    \E i \in 1..Len(wire[e]) :
        /\ CanArrive(wire[e], i) /\ wire[e][i].ty = "Application"
        /\ "Stream" \in FrameTypes(wire[e][i].frames)
        /\ nops < MaxDup /\ nops' = nops + 1
        /\ RecvCall(e, <<wire[e][i]>>, "none")
        /\ UNCHANGED <<wire, calls>>

\* The client writes 1, then 2 and 3 with fin, to stream 0, and 7 with
\* fin to stream 4.
NetStreamSend ==
    /\ \/ g["client"].pushed[0] = <<>>
          /\ StreamSendCall("client", 0, <<1>>, FALSE)
       \/ g["client"].pushed[0] = <<1>>
          /\ StreamSendCall("client", 0, <<2, 3>>, TRUE)
       \/ g["client"].pushed[4] = <<>>
          /\ StreamSendCall("client", 4, <<7>>, TRUE)
    /\ UNCHANGED <<nops, calls>>

NetStreamRecv == StreamRecvCall("server", 0) /\ UNCHANGED <<nops, calls>>

NetClientSend == NetSend("client")
NetServerSend == NetSend("server")
NetClientRecv == NetRecv("client")
NetServerRecv == NetRecv("server")
NetServerDup == NetDup("server")

NextNet ==
    \/ NetClientSend \/ NetServerSend \/ NetClientRecv \/ NetServerRecv
    \/ NetServerDup \/ NetStreamSend \/ NetStreamRecv

SpecNet == InitNet /\ [][NextNet]_vars

(***************************************************************************)
(* The properties.                                                         *)
(***************************************************************************)
\* What send can return in a state for a buffer that is not empty.
SendOutcomes(c) ==
    { send(c, x[1], x[2], o, x[3]) :
        x \in {y \in SendInputs(c) : y[1] # 0},
        o \in Orders(DOMAIN c.streams) }

LastWas(op, e, res) == last.op = op /\ last.who = e /\ last.res = res

\* C1: once recv has processed a packet with a CONNECTION_CLOSE or an
\* APPLICATION_CLOSE frame the connection is draining for good: whatever
\* was called since, a send with a buffer that is not empty returns
\* NothingToDo, emits no packet and changes nothing.
C1_DrainingForever ==
    \A e \in DOMAIN conn :
        g[e].closed =>
            /\ conn[e].draining
            /\ \A r \in SendOutcomes(conn[e]) :
                 r.res = "NothingToDo" /\ r.c = conn[e]
            /\ last.op = "send" /\ last.who = e
                 => last.res \in {"NothingToDo", "BufferTooShort"}

\* A send was refused on a connection that a close frame had closed, after
\* other calls.
C1_Refused ==
    \E e \in DOMAIN conn :
        /\ g[e].closed /\ LastWas("send", e, "NothingToDo")
        /\ nops >= 3

\* C2 as stated: a recv of a long-header packet of another version fails
\* with UnknownVersion and leaves the whole connection as it was, in every
\* state.
C2_Unchanged ==
    \A e \in DOMAIN conn :
        /\ recv(conn[e], <<BadVersion(conn[e])>>, "none").res
             = "UnknownVersion"
        /\ recv(conn[e], <<BadVersion(conn[e])>>, "none").c = conn[e]

\* C2, amended: recv first pumps the handshake.  If the pump fails recv
\* returns its error; else recv of a long-header packet of another version
\* fails with UnknownVersion.  Either way the connection is left as the
\* pump alone leaves it, so unchanged once the handshake has completed.
C2_UnchangedButPump ==
    \A e \in DOMAIN conn : \A tlsev \in TlsEventsOf(conn[e]) :
        \E hs \in {do_handshake(conn[e], tlsev)} :
        \E r \in {recv(conn[e], <<BadVersion(conn[e])>>, tlsev)} :
            /\ r.c = hs.c
            /\ r.res = IF hs.res = "Ok" THEN "UnknownVersion" ELSE hs.res
            /\ conn[e].handshake_completed
                 => r.c = conn[e] /\ r.res = "UnknownVersion"

\* A client's first call was a recv of a packet of another version: it
\* failed with UnknownVersion and left the ClientHello to send.
C2_PumpedThenRefused ==
    \E e \in DOMAIN conn :
        /\ LastWas("recv", e, "UnknownVersion") /\ nops = 1
        /\ StreamCanWrite(conn[e].space["Initial"].crypto_stream)

\* The connection can open the packet: the handshake is complete, and the
\* key and the packet number are what the space expects.
Opens(c, p) ==
    /\ c.handshake_completed
    /\ p.ty \in Levels
    /\ c.space[p.ty].crypto_open = p.key
    /\ decode_pkt_num(c.space[p.ty].largest_rx_pkt_num,
                      encode_pkt_num(p.pn), pkt_num_len(p.pn)) = p.pn

\* The limit the connection has advertised for a stream.
AdvertisedMaxRx(c, id) ==
    IF id \in DOMAIN c.streams THEN c.streams[id].max_rx_data
    ELSE c.local_transport_params.initial_max_stream_data_bidi_local

\* The packets of one STREAM frame that ends beyond the advertised limit.
Overflowing(c) ==
    { p \in EnvPackets(c) :
        /\ Len(p.frames) = 1 /\ p.frames[1].ft = "Stream"
        /\ p.frames[1].data.off + Len(p.frames[1].data.data)
             > AdvertisedMaxRx(c, p.frames[1].stream_id) }

\* C3 as stated: a recv that processes a STREAM frame ending beyond the
\* stream's advertised max_rx_data fails with FlowControl and leaves the
\* stream table, with every stream's rx_data and reassembly queue, as it
\* was.
C3_FlowControlNoMutation ==
    \A e \in DOMAIN conn : \A p \in Overflowing(conn[e]) :
        Opens(conn[e], p) =>
            /\ recv(conn[e], <<p>>, "none").res = "FlowControl"
            /\ recv(conn[e], <<p>>, "none").c.streams = conn[e].streams

\* C4 as stated: every stream of the table has rx_data <= max_rx_data, in
\* every reachable state.
C4_RxWithinLimit ==
    \A e \in DOMAIN conn : \A id \in DOMAIN conn[e].streams :
        conn[e].streams[id].rx_data <= conn[e].streams[id].max_rx_data

\* Where the STREAM frames of a packet end: the stream and the offset.
StreamEnds(pkt) ==
    { <<pkt.frames[i].stream_id,
        pkt.frames[i].data.off + Len(pkt.frames[i].data.data)>> :
      i \in {j \in 1..Len(pkt.frames) : pkt.frames[j].ft = "Stream"} }

\* The bytes send has taken from a stream.
StreamSent(st) == IF st.send = <<>> THEN st.send_off ELSE Head(st.send).off

\* The bytes send has taken from the streams, summed in some order of
\* the table.
RECURSIVE SumSendOff(_, _)
SumSendOff(c, order) ==
    IF order = <<>> THEN 0
    ELSE StreamSent(c.streams[Head(order)]) + SumSendOff(c, Tail(order))

\* C5: in every reachable state tx_data <= max_tx_data, for the connection
\* and for every stream, and what send has taken from the streams is
\* within both: a packet just emitted ends its STREAM data at or below the
\* stream's limit, and the bytes taken from all streams are at most the
\* connection's tx_data.
C5_TxWithinLimit ==
    \A e \in DOMAIN conn :
        /\ conn[e].tx_data <= conn[e].max_tx_data
        /\ \A id \in DOMAIN conn[e].streams :
             /\ conn[e].streams[id].tx_data <= conn[e].streams[id].max_tx_data
             /\ StreamSent(conn[e].streams[id]) <= conn[e].streams[id].tx_data
        /\ \A o \in Orders(DOMAIN conn[e].streams) :
             SumSendOff(conn[e], o) <= conn[e].tx_data
        /\ LastWas("send", e, "Ok") =>
             \A b \in StreamEnds(last.pkt) :
                 b[2] <= conn[e].streams[b[1]].max_tx_data

\* A packet with STREAM data was emitted and the stream's credit, now
\* used up, holds back the rest of what the application wrote.
C5_Blocked ==
    \E e \in DOMAIN conn : \E id \in DOMAIN conn[e].streams :
        /\ LastWas("send", e, "Ok")
        /\ \E i \in 1..Len(last.pkt.frames) :
             /\ last.pkt.frames[i].ft = "Stream"
             /\ last.pkt.frames[i].stream_id = id
        /\ StreamCanWrite(conn[e].streams[id])
        /\ conn[e].streams[id].tx_data = conn[e].streams[id].max_tx_data

\* The packet numbers emitted in a space, in the order of emission, go up.
Increasing(seq) == \A i, j \in 1..Len(seq) : i < j => seq[i] < seq[j]

\* C6: in each packet number space last_pkt_num never decreases, whatever
\* is called, and the packets send emits in the space carry distinct
\* packet numbers that go up strictly in the order of emission.
C6_PktNumMonotonic ==
    /\ [](\A e \in DOMAIN conn : \A l \in Levels :
            /\ Increasing(g[e].emitted[l])
            /\ \A i \in 1..Len(g[e].emitted[l]) :
                 g[e].emitted[l][i] < conn[e].space[l].last_pkt_num)
    /\ [][\A e \in DOMAIN conn : \A l \in Levels :
            conn'[e].space[l].last_pkt_num >= conn[e].space[l].last_pkt_num]_vars

\* Two packets were emitted in one space.
C6_TwoEmitted ==
    \E e \in DOMAIN conn : \E l \in Levels : Len(g[e].emitted[l]) >= 2

\* C7 as stated: after a successful recv of a packet pn with a frame that
\* is not an ACK, the next packet send emits in the space has an ACK frame
\* with pn in its ranges; that frame carries exactly the packet numbers
\* received in the space since the ACK before it, and leaves recv_pkt_num
\* empty and do_ack false.
C7_AckInNextPacket ==
    \A e \in DOMAIN conn :
        LastWas("send", e, "Ok") =>
            /\ g[e].pend[last.pkt.ty] = {}
            /\ "ACK" \in FrameTypes(last.pkt.frames) =>
                 /\ AckedBy(last.pkt) = g[e].due[last.pkt.ty]
                 /\ conn[e].space[last.pkt.ty].recv_pkt_num = {}
                 /\ ~conn[e].space[last.pkt.ty].do_ack

\* What the client wrote to stream 0 and what the server read from it.
Written == g["client"].pushed[0]
Obtained == g["server"].read[0]

\* No datagram is on its way and a send of either side has nothing to
\* emit: the calls of send and recv that deliver what was written are
\* over.
Delivered ==
    /\ \A e \in Endpoints : wire[e] = <<>>
    /\ \A e \in Endpoints : \A build \in Builds :
         \A o \in Orders(DOMAIN conn[e].streams) :
             send(conn[e], BigOut, "none", o, build).res = "NothingToDo"

\* The server has read all that stream 0 holds for it.
ReadOut ==
    0 \in DOMAIN conn["server"].streams
        => ~StreamCanRead(conn["server"].streams[0])

AllEmitted ==
    /\ 0 \in DOMAIN conn["client"].streams
    /\ conn["client"].streams[0].send = <<>>

C9_BothEstablished ==
    /\ <>(\A e \in Endpoints : is_established(conn[e]))
    /\ [][\A e \in Endpoints :
            is_established(conn[e]) => is_established(conn'[e])]_vars

\* Both endpoints are established, the server by its last call.
C9_Established ==
    /\ \A e \in Endpoints : is_established(conn[e])
    /\ last.who = "server" /\ wire["server"] = <<>>

\* The packets e has emitted so far.
Emitted(e) ==
    Len(g[e].emitted["Initial"]) + Len(g[e].emitted["Handshake"])
        + Len(g[e].emitted["Application"])

FrameSeq(pkt) == [i \in 1..Len(pkt.frames) |-> pkt.frames[i].ft]

\* C11 as stated: the first packet a client emits is an Initial packet of
\* at least CLIENT_INITIAL_MIN_LEN bytes, the value send returns, with one
\* CRYPTO frame followed by PADDING and nothing else; no later packet of
\* the client has PADDING.
C11_FirstInitialPadded ==
    \A e \in DOMAIN conn :
        ~conn[e].is_server /\ LastWas("send", e, "Ok") =>
            IF Emitted(e) = 1
            THEN /\ last.pkt.ty = "Initial"
                 /\ last.n >= CLIENT_INITIAL_MIN_LEN
                 /\ FrameSeq(last.pkt) = <<"Crypto", "Padding">>
            ELSE "Padding" \notin FrameTypes(last.pkt.frames)

\* The step is a call of send by e that emitted an Application packet.
SentApplication(e) ==
    /\ last'.op = "send" /\ last'.who = e /\ last'.res = "Ok"
    /\ last'.pkt.ty = "Application"

\* The packet emitted by the step raises the limit of stream id to max,
\* and the stream keeps max as its limit.
Raises(e, id, max) ==
    /\ \E i \in 1..Len(last'.pkt.frames) :
         last'.pkt.frames[i] = FMaxStreamData(id, max)
    /\ conn'[e].streams[id].max_rx_data = max

Window(c) == c.local_transport_params.initial_max_stream_data_bidi_local

\* C12 as stated, for the sends that emit an Application packet and for a
\* stream of which more than half the window was read (more_credit): the
\* packet has a MAX_STREAM_DATA frame for the stream whose limit is the
\* limit advertised before plus initial_max_stream_data_bidi_local, and
\* max_rx_data becomes that limit.
C12_RaisedByWindow ==
    [][\A e \in DOMAIN conn : SentApplication(e) =>
         \A id \in DOMAIN conn[e].streams :
             StreamMoreCredit(conn[e].streams[id]) =>
                 Raises(e, id, conn[e].streams[id].max_rx_data
                                 + Window(conn[e]))]_vars

\* C12, amended: a send that emits an Application packet puts into it,
\* for every stream with more_credit, a MAX_STREAM_DATA frame whose limit
\* is the stream's rx_data plus initial_max_stream_data_bidi_local, and
\* max_rx_data becomes that limit.
C12_RaisedFromRxData ==
    [][\A e \in DOMAIN conn : SentApplication(e) =>
         \A id \in DOMAIN conn[e].streams :
             StreamMoreCredit(conn[e].streams[id]) =>
                 Raises(e, id, conn[e].streams[id].rx_data
                                 + Window(conn[e]))]_vars

\* A packet with a MAX_STREAM_DATA frame was emitted for a stream the
\* application has read from.
C12_Raised ==
    \E e \in DOMAIN conn : \E id \in DOMAIN conn[e].streams :
        /\ LastWas("send", e, "Ok")
        /\ \E i \in 1..Len(last.pkt.frames) :
             /\ last.pkt.frames[i].ft = "MaxStreamData"
             /\ last.pkt.frames[i].stream_id = id
        /\ g[e].read[id] # <<>>

\* A recv of e that succeeds on the buffer wire[e].
Received(e) == last'.op = "recv" /\ last'.who = e /\ last'.res = "Ok"

Avail(c, out_len) == Min(c.peer_transport_params.max_packet_size, out_len)

\* lib.rs 456-463: the budget send computes for the frames of the packet
\* pkt, the room behind the header less 4 bytes for the length, the
\* packet number and the tag.
Budget(c, out_len, pkt) ==
    Avail(c, out_len) - HeaderLen(pkt.ty, pkt.dcid, pkt.scid) - 4
        - pkt_num_len(pkt.pn) - AeadTagLen

\* The calls of send a connection can be given, with what they return.
SendCalls(c) ==
    { [out_len |-> x[1], r |-> send(c, x[1], x[2], o, x[3])] :
        x \in SendInputs(c), o \in Orders(DOMAIN c.streams) }

\* C14, its first half: a send that succeeds returns the length of one
\* packet, which is at most the peer's max_packet_size and at most the
\* length of the buffer.
C14_WithinAvail ==
    \A e \in DOMAIN conn : \A s \in SendCalls(conn[e]) :
        s.r.res = "Ok" =>
            /\ s.r.n = PacketLen(s.r.pkt)
            /\ s.r.n <= Avail(s.r.c, s.out_len)

\* C14 as stated: and the frames of the packet are within the budget
\* computed for it.
C14_WithinBudget ==
    \A e \in DOMAIN conn : \A s \in SendCalls(conn[e]) :
        s.r.res = "Ok" =>
            /\ s.r.n <= Avail(s.r.c, s.out_len)
            /\ FramesLen(s.r.pkt.frames) <= Budget(s.r.c, s.out_len, s.r.pkt)

\* C14: a send has filled a buffer shorter than the peer's limit to
\* within the bytes kept back for the length.
C14_Capped ==
    \E e \in DOMAIN conn :
        /\ LastWas("send", e, "Ok")
        /\ last.n <= ShortOut /\ last.n >= ShortOut - 4

\* The peer's parameters as the TLS session of c has them: [ok, tp]
PeerParams(c) ==
    IF ~TlsGetQuicTransportParams(c.tls_state).ok
    THEN [ok |-> FALSE, tp |-> TransportParamsDefault]
    ELSE TPDecode(TlsGetQuicTransportParams(c.tls_state).raw, c.version,
                  c.is_server)

\* C15 as stated: a connection that is established has the peer's
\* transport parameters, extracted from the TLS session and decoded, in
\* peer_transport_params; it is not established when the extraction or
\* the decoding failed.
C15_EstablishedWithParams ==
    \A e \in DOMAIN conn :
        is_established(conn[e]) =>
            /\ PeerParams(conn[e]).ok
            /\ conn[e].peer_transport_params = PeerParams(conn[e]).tp

\* A space has something to send: handshake data or an ACK that is owed.
Wants(c, l) == StreamCanWrite(c.space[l].crypto_stream) \/ c.space[l].do_ack

\* The streams of a connection have data to send or credit to give.
StreamsWant(c) ==
    \E id \in DOMAIN c.streams :
        StreamCanWrite(c.streams[id]) \/ StreamMoreCredit(c.streams[id])

\* The connection as send finds it once it has pumped the handshake.
Pumped(c) == do_handshake(c, "none").c

\* C16: the packet a send emits is of the first space, in the order
\* Initial, Handshake, Application, that has something to send when the
\* handshake has been pumped, the Application space having something
\* only once the handshake is complete; a send emits no packet when no
\* space has, and no Application packet while the handshake is not
\* complete.
C16_SpacePriority ==
    [][\A e \in DOMAIN conn :
         last'.op = "send" /\ last'.who = e /\ last'.res = "Ok" =>
            /\ last'.pkt.ty \in Levels
            /\ last'.pkt.ty = "Initial" <=> Wants(Pumped(conn[e]), "Initial")
            /\ last'.pkt.ty = "Handshake" <=>
                  /\ ~Wants(Pumped(conn[e]), "Initial")
                  /\ Wants(Pumped(conn[e]), "Handshake")
            /\ last'.pkt.ty = "Application" <=>
                  /\ ~Wants(Pumped(conn[e]), "Initial")
                  /\ ~Wants(Pumped(conn[e]), "Handshake")
                  /\ Pumped(conn[e]).handshake_completed
                  /\ \/ Wants(Pumped(conn[e]), "Application")
                     \/ StreamsWant(Pumped(conn[e]))
            /\ last'.pkt.ty = "Application" =>
                  conn'[e].handshake_completed]_vars

\* C16: an Application packet has been emitted, and one of each of the
\* other two spaces before it.
C16_AllSpaces ==
    \E e \in DOMAIN conn :
        /\ LastWas("send", e, "Ok") /\ last.pkt.ty = "Application"
        /\ g[e].emitted["Initial"] # <<>>
        /\ g[e].emitted["Handshake"] # <<>>

\* The recv calls a connection can be given, with what they return.
RecvCalls(c) ==
    { [pkt |-> Head(x[1]), r |-> recv(c, x[1], x[2])] :
        x \in {y \in RecvInputs(c) : y[1] # <<>>} }

\* The packet has a frame of a type that is not in quiet.
Elicits(pkt, quiet) == FrameTypes(pkt.frames) \ quiet # {}

\* After a recv of the run that succeeded, the space of the packet owes
\* an acknowledgement if it did before or the packet has a frame of a
\* type that is not in quiet, and only then.
AckOwed(quiet) ==
    nops < MaxOps =>
    \A e \in DOMAIN conn : \A s \in RecvCalls(conn[e]) :
        s.r.res = "Ok" =>
            s.r.c.space[s.pkt.ty].do_ack =
                (conn[e].space[s.pkt.ty].do_ack \/ Elicits(s.pkt, quiet))

FrameRank(ft) ==
    CASE ft = "ACK" -> 1 [] ft = "Crypto" -> 2 [] ft = "Padding" -> 3
      [] ft = "MaxData" -> 4 [] ft = "MaxStreamData" -> 5
      [] ft = "Stream" -> 6 [] OTHER -> 0

\* The frames of the given type in a packet.
FramesOf(pkt, ft) == {i \in 1..Len(pkt.frames) : pkt.frames[i].ft = ft}

\* C18: the frames of a packet that send emits are in the order ACK,
\* CRYPTO, PADDING, MAX_DATA, MAX_STREAM_DATA, STREAM; there is at most
\* one ACK, one CRYPTO, one MAX_DATA and one STREAM frame in it, and the
\* last three types are in Application packets only.
C18_FrameOrder ==
    \A e \in DOMAIN conn :
        LastWas("send", e, "Ok") =>
            /\ \A i \in 1..Len(last.pkt.frames) :
                  FrameRank(last.pkt.frames[i].ft) > 0
            /\ \A i, j \in 1..Len(last.pkt.frames) :
                  i < j => FrameRank(last.pkt.frames[i].ft)
                             <= FrameRank(last.pkt.frames[j].ft)
            /\ \A ft \in {"ACK", "Crypto", "MaxData", "Stream"} :
                  Cardinality(FramesOf(last.pkt, ft)) <= 1
            /\ last.pkt.ty # "Application" =>
                  FrameTypes(last.pkt.frames)
                      \cap {"MaxData", "MaxStreamData", "Stream"} = {}

\* C18: an Application packet with a MAX_DATA and a STREAM frame has been
\* emitted while two streams had data to send.
C18_SeveralFrames ==
    \E e \in DOMAIN conn :
        /\ LastWas("send", e, "Ok") /\ last.pkt.ty = "Application"
        /\ {"MaxData", "Stream"} \subseteq FrameTypes(last.pkt.frames)
        /\ \E id \in DOMAIN conn[e].streams :
              StreamCanWrite(conn[e].streams[id])

\* C19 as stated: the limit max_tx_data of a connection never decreases,
\* whatever is called: not when a MAX_DATA frame with a lower limit
\* arrives, and not when the handshake completes after a MAX_DATA frame.
C19_MaxTxDataMonotonic ==
    [][\A e \in DOMAIN conn :
         conn'[e].max_tx_data >= conn[e].max_tx_data]_vars

\* C20 as stated: a send that returns NothingToDo leaves the connection
\* as it was, or as the pump of the handshake alone leaves it: the packet
\* numbers, the acknowledgements owed, sent_initial, the streams and the
\* flow-control counters are what they were.
C20_NothingConsumed ==
    [][\A e \in DOMAIN conn :
         last'.op = "send" /\ last'.who = e /\ last'.res = "NothingToDo" =>
            conn'[e] \in {conn[e], Pumped(conn[e])}]_vars

\* What a send must not lose of a connection: the acknowledgements the
\* spaces owe and what waits in the crypto streams and in the streams.
Pending(c) ==
    [ acks |-> [l \in Levels |->
                  <<c.space[l].recv_pkt_num, c.space[l].do_ack>>],
      crypto |-> [l \in Levels |-> c.space[l].crypto_stream.send],
      streams |-> [id \in DOMAIN c.streams |-> c.streams[id].send] ]

\* C21 as stated: a send that returns BufferTooShort, InvalidState or
\* CryptoFail has lost nothing: the acknowledgements owed and the bytes
\* queued in the crypto streams and the streams are what the pump of the
\* handshake left (what they were, for an empty buffer, which send
\* refuses before the pump).
C21_NothingLost ==
    \A e \in DOMAIN conn : \A s \in SendCalls(conn[e]) :
        s.r.res \in {"BufferTooShort", "InvalidState", "CryptoFail"} =>
            Pending(s.r.c) = IF s.out_len = 0 THEN Pending(conn[e])
                             ELSE Pending(Pumped(conn[e]))

\* What a packet that does not open must leave alone: the peer's
\* connection id, the Initial keys and the packet number spaces.
Addressed(c) ==
    [ dcid |-> c.dcid, got_peer_conn_id |-> c.got_peer_conn_id,
      derived_initial_secrets |-> c.derived_initial_secrets,
      keys |-> <<c.space["Initial"].crypto_open,
                 c.space["Initial"].crypto_seal>>,
      spaces |-> [l \in Levels |->
                    <<c.space[l].recv_pkt_num,
                      c.space[l].largest_rx_pkt_num, c.space[l].do_ack>>] ]

\* C22 as stated: a recv that fails with CryptoFail or InvalidState
\* leaves dcid, got_peer_conn_id, derived_initial_secrets, the Initial
\* keys and every packet number space as they were before the call.
C22_FailedOpenUnchanged ==
    \A e \in DOMAIN conn : \A s \in RecvCalls(conn[e]) :
        s.r.res \in {"CryptoFail", "InvalidState"} =>
            Addressed(s.r.c) = Addressed(conn[e])

\* The streams a packet has a MAX_STREAM_DATA frame for.
Limited(pkt) ==
    {pkt.frames[i].stream_id : i \in FramesOf(pkt, "MaxStreamData")}

\* A recv of the run that succeeds has no MAX_STREAM_DATA frame for a
\* stream that is not in the table.
KnownLimited ==
    nops < MaxOps =>
    \A e \in DOMAIN conn : \A s \in RecvCalls(conn[e]) :
        s.r.res = "Ok" => Limited(s.pkt) \subseteq DOMAIN conn[e].streams

\* What a call does to the stream table of e: no stream is removed, and
\* one is added by stream_send and recv only; a recv that fails with
\* UnknownStream adds none; stream_recv succeeds on a stream of the table
\* only, changes nothing when it fails, and returns an empty buffer and
\* changes nothing when the stream has no data at the offset it waits for.
TableStep(e) ==
    /\ DOMAIN conn[e].streams \subseteq DOMAIN conn'[e].streams
    /\ DOMAIN conn'[e].streams # DOMAIN conn[e].streams =>
          last'.who = e /\ last'.op \in {"stream_send", "recv"}
    /\ last'.who = e /\ last'.res = "UnknownStream" =>
          DOMAIN conn'[e].streams = DOMAIN conn[e].streams
    /\ last'.who = e /\ last'.op = "stream_recv" =>
          /\ last'.res \in {"Ok", "UnknownStream"}
          /\ last'.res = "UnknownStream" => conn'[e] = conn[e]
          /\ last'.res = "Ok" =>
                /\ last'.n \in DOMAIN conn[e].streams
                /\ ~StreamCanRead(conn[e].streams[last'.n]) =>
                      last'.buf = RangeBufDefault /\ conn'[e] = conn[e]

\* C23: a MAX_STREAM_DATA frame for a stream that is not in the table
\* makes recv fail with UnknownStream, and stream_recv on such a stream
\* fails with UnknownStream, neither creating the stream; stream_recv on
\* a stream with nothing to read returns an empty buffer and changes
\* nothing; streams are added by stream_send and recv only and never
\* removed.
C23_UnknownStream ==
    []KnownLimited /\ [][\A e \in DOMAIN conn : TableStep(e)]_vars

\* C23: a recv has failed with UnknownStream on a connection that has
\* stream 4 and not stream 0.
C23_Refused ==
    \E e \in DOMAIN conn :
        /\ LastWas("recv", e, "UnknownStream")
        /\ DOMAIN conn[e].streams = {4}

\* Before the peer's connection id is known a client has the 16 random
\* bytes of its construction and a server has none; a recv of the run
\* changes dcid only while got_peer_conn_id is unset, to the source
\* connection id of the packet it is given, and sets the flag with it.
DcidFromPeer ==
    \A e \in DOMAIN conn :
        /\ ~conn[e].got_peer_conn_id =>
              conn[e].dcid = IF conn[e].is_server THEN <<>> ELSE CidRandom
        /\ Len(CidRandom) = 16
        /\ nops < MaxOps =>
              \A s \in RecvCalls(conn[e]) :
                  s.r.c.dcid # conn[e].dcid =>
                      /\ ~conn[e].got_peer_conn_id
                      /\ s.r.c.got_peer_conn_id
                      /\ s.r.c.dcid = s.pkt.scid

\* What a call does to the dcid of e: only a recv changes it, and only
\* by setting got_peer_conn_id, which is never unset; a packet send
\* emits is sent to a dcid that is set, and its long header carries the
\* dcid and the scid the connection has.
DcidStep(e) ==
    /\ conn[e].got_peer_conn_id => conn'[e].got_peer_conn_id
    /\ conn'[e].dcid # conn[e].dcid =>
          /\ last'.op = "recv" /\ last'.who = e
          /\ ~conn[e].got_peer_conn_id /\ conn'[e].got_peer_conn_id
    /\ last'.op = "send" /\ last'.who = e /\ last'.res = "Ok" =>
          /\ conn'[e].dcid # <<>>
          /\ conn'[e].dcid = conn[e].dcid
          /\ last'.pkt.ty # "Application" =>
                /\ last'.pkt.dcid = conn'[e].dcid
                /\ last'.pkt.scid = conn'[e].scid
                /\ last'.pkt.scid = CidLocal(conn[e].is_server)

\* C24: dcid is set before a packet is emitted and changes at most once,
\* in the recv of the first packet from the peer, to that packet's source
\* connection id; once got_peer_conn_id is set no packet changes it; a
\* long header emitted carries the connection's dcid and its scid.
C24_DcidOnce ==
    []DcidFromPeer /\ [][\A e \in DOMAIN conn : DcidStep(e)]_vars

\* The bytes the streams in ids have accepted: those read already and
\* those waiting in the receive buffers.
RECURSIVE Accepted(_, _)
Accepted(c, ids) ==
    IF ids = {} THEN 0
    ELSE LET id == CHOOSE x \in ids : TRUE
         IN c.streams[id].recv_off + Cardinality(c.streams[id].recv)
              + Accepted(c, ids \ {id})

\* The connection's rx_data covers the stream bytes accepted and is within
\* the limit advertised.
RxDataTracks ==
    \A e \in DOMAIN conn :
        /\ conn[e].rx_data >= Accepted(conn[e], DOMAIN conn[e].streams)
        /\ conn[e].rx_data <= conn[e].max_rx_data

\* A MAX_DATA frame that send emits is above the limit the connection had.
MaxDataRaises(e) ==
    SentApplication(e) =>
        \A i \in FramesOf(last'.pkt, "MaxData") :
            last'.pkt.frames[i].max > conn[e].max_rx_data

\* C25: the connection's rx_data is at least the number of stream bytes
\* recv has accepted and at most max_rx_data, and every MAX_DATA frame
\* emitted advertises more than the limit advertised before.
C25_RxDataTracked ==
    []RxDataTracks /\ [][\A e \in DOMAIN conn : MaxDataRaises(e)]_vars

\* C26: no subtraction of send's budget arithmetic goes below zero: no
\* send with a non-empty buffer, in any state of the run, stops on an
\* unsigned underflow (the panic of a build with overflow checks); a
\* buffer too small for the packet gives BufferTooShort.
C26_NoUnderflow ==
    \A e \in DOMAIN conn : \A s \in SendCalls(conn[e]) :
        s.out_len # 0 => s.r.res # "Panic"

\* C10 as stated: for every TransportParams record, decoding what encode
\* wrote for it, with the matching role, gives the record back.
C10_RoundTrip == tpx.pc = "decoded" => tpx.out = tpx.in

=============================================================================
